---- MODULE Spec2Model ----
(***************************************************************************)
(* A model of certbot-aliyun (package auto_cert):                          *)
(*   - the DNS-01 challenge hook (alidns_hook.py) and the certbot plugin   *)
(*     handler (dns_alidns.py) with their marker files and the DNS         *)
(*     provider,                                                           *)
(*   - Config.validate (config.py),                                        *)
(*   - the renewal entry point (renew_cert.py),                            *)
(*   - the deployment entry point (update_slb_cert.py),                    *)
(*   - the scheduler (cron.py).                                            *)
(* Python strings are sequences of one-character strings, so that the      *)
(* string operations of the source (replace, split, endswith, rstrip, in)  *)
(* are computed and not assumed.                                           *)
(***************************************************************************)
EXTENDS Integers, Sequences, FiniteSets, TLC

VARIABLES
    cfg,        \* the Config class attributes / process environment
    impl,       \* which DNS authenticator the ACME client drives: "hook" | "plugin"
    markers,    \* hook: the files of CERTBOT_CONFIG_DIR/alidns_records, [file, content]
    tmpfiles,   \* plugin: the contents of the /tmp/alidns_record_*.txt files
    records,    \* DNS provider: the live TXT records, [n, zone, rr], of id str(n)
    nextRid,    \* DNS provider: number of the next record id it hands out
    hlog,       \* the last DNS handler invocation: operation, calls made, how it ended
    stored,     \* history: per validation name, the record id its last present stored
    asked,      \* history: the arguments of the last direct call of a handler function
    created,    \* history: per record id, the name whose present the provider created it for
    session,    \* history: the presents not yet cleaned up, per name, and how far the
                \* sequence of presents followed by cleanups has come
    live,       \* CERTBOT_CONFIG_DIR/live: the certificate directories certbot keeps
    store,      \* certificate store (CAS): the uploaded bundles
    nextCertId, \* certificate store: the id of the next upload
    listener,   \* load balancer: the certificate identifier the listener is bound to
    deployFile, \* CERT_STORAGE_PATH/slb_deployment_info.json: the certificate id in it
    dlog,       \* the last deployment run: inputs, calls made, result
    prevClean,  \* history: the run before the last one was a run without any failure
    clock,      \* the time, in hours GMT
    tz,         \* the offset of the local time zone from GMT, in hours
    rlog,       \* the last run of renew_cert.main(): what it saw, did and exited with
    tasklog,    \* per scheduler task, its last run: return value, whether it called main()
    pc,         \* CronScheduler: where start() is
    running,    \* CronScheduler.running
    renew_success, \* _run_all_tasks: the local renew_success
    inFirst,    \* start() is in its immediate first run of the tasks
    signalled,  \* history: a signal was delivered
    tlog,       \* history: the steps of the current tick
    configured, \* the interval as given: the constructor argument and CRON_INTERVAL_HOURS
    interval_hours, \* CronScheduler.interval_hours
    since_run,  \* schedule: the sleeps since the job was scheduled or last run
    chosen      \* the directory each of the two lookups of the live directory returned

dnsVars == <<impl, markers, tmpfiles, records, nextRid, hlog, stored, asked, session, created>>

deployVars == <<store, nextCertId, listener, deployFile, dlog, prevClean>>

renewVars == <<clock, tz, rlog>>

timerVars == <<configured, interval_hours, since_run>>

cronVars == <<pc, running, renew_success, inFirst, signalled, tlog, timerVars>>

vars == <<cfg, live, dnsVars, deployVars, renewVars, tasklog, cronVars, chosen>>

-----------------------------------------------------------------------------
(* Python str operations on sequences of characters                        *)

\* str.startswith
StartsWith(s, p) == Len(p) <= Len(s) /\ SubSeq(s, 1, Len(p)) = p

\* str.endswith
EndsWith(s, p) == Len(p) <= Len(s) /\ SubSeq(s, Len(s) - Len(p) + 1, Len(s)) = p

\* s[n:]
DropFirst(s, n) == SubSeq(s, n + 1, Len(s))

\* s[:-n] for n >= 1
DropLast(s, n) == SubSeq(s, 1, Len(s) - n)

\* `sub in s`
Contains(s, sub) ==
    \E i \in 1..(Len(s) + 1) :
        i + Len(sub) - 1 <= Len(s) /\ SubSeq(s, i, i + Len(sub) - 1) = sub

\* str.replace(old, new): left to right, non-overlapping (old is not empty)
RECURSIVE Replace(_, _, _)
Replace(s, old, new) ==
    IF s = <<>> THEN <<>>
    ELSE IF StartsWith(s, old) THEN new \o Replace(DropFirst(s, Len(old)), old, new)
    ELSE <<Head(s)>> \o Replace(Tail(s), old, new)

\* str.rstrip(chars) for a single character
RECURSIVE RStrip(_, _)
RStrip(s, c) ==
    IF s # <<>> /\ s[Len(s)] = c THEN RStrip(DropLast(s, 1), c) ELSE s

\* str.split(sep) for a single character: always at least one part
RECURSIVE Split(_, _)
Split(s, c) ==
    IF \A i \in 1..Len(s) : s[i] # c THEN <<s>>
    ELSE LET k == CHOOSE i \in 1..Len(s) : s[i] = c /\ \A j \in 1..(i - 1) : s[j] # c
         IN  <<SubSeq(s, 1, k - 1)>> \o Split(DropFirst(s, k), c)

\* sep.join(parts)
RECURSIVE Join(_, _)
Join(parts, sep) ==
    IF parts = <<>> THEN <<>>
    ELSE IF Len(parts) = 1 THEN parts[1]
    ELSE parts[1] \o sep \o Join(Tail(parts), sep)

\* s.split(sep, 1)[1]: what follows the first sep (s contains sep)
AfterFirst(s, c) ==
    LET k == CHOOSE i \in 1..Len(s) : s[i] = c /\ \A j \in 1..(i - 1) : s[j] # c
    IN  DropFirst(s, k)

-----------------------------------------------------------------------------
(* Bounds of the model                                                     *)

\* the DNS provider hands out at most this many record ids
MaxRid == 3

\* the entries of the live directory
MaxDirs == 2

\* the direct calls of the handler functions create at most this many records
MaxCalled == 2

\* the certificate store hands out at most this many certificate ids
MaxCertId == 5

\* the clock is followed for this many hours
MaxClock == 6

\* the days a newly issued certificate is valid for
IssuedDays == 90

-----------------------------------------------------------------------------
(* Names.  "e.c" stands for a registrable domain such as example.com and   *)
(* "_c" for the label _acme-challenge.                                     *)

Dot == <<".">>
Colon == <<":">>
Star == <<"*">>
AcmeLabel == <<"_", "c">>
D_ec == <<"e", ".", "c">>
D_wild_ec == <<"*", ".", "e", ".", "c">>
D_a_ec == <<"a", ".", "e", ".", "c">>
D_a_e_c == <<"a", "_", "e", ".", "c">>

\* what is not there: Python's None and the empty string, both falsy
NoId == <<>>

\* the values CERTBOT_DOMAIN takes when the ACME client runs the hook
HookDomains == {D_ec, D_wild_ec, D_a_ec, D_a_e_c}

\* main(): validation_name = f"_acme-challenge.{domain}"
ValidationName(domain) == AcmeLabel \o Dot \o domain

\* the validation names certbot hands to the plugin
PluginNames == {ValidationName(D_ec), ValidationName(D_a_ec)}

\* arguments the handler functions are called with directly, (domain, validation_name):
\* a name under the zone, the zone itself, a name outside the zone with a trailing
\* dot, a name with the wildcard label, and a name two labels under the zone
D_oc == <<"o", ".", "c">>
CallArgs ==
    {[domain |-> D_ec, vn |-> ValidationName(D_ec)],
     [domain |-> D_ec, vn |-> D_ec],
     [domain |-> D_ec, vn |-> ValidationName(D_oc) \o Dot],
     [domain |-> D_wild_ec, vn |-> ValidationName(D_wild_ec)],
     [domain |-> D_a_ec, vn |-> ValidationName(D_a_ec)]}

\* how a provider call can end
CreateOutcomes == {"ok", "noid", "raise"}
DeleteOutcomes == {"ok", "unconfirmed", "raise"}
QueryOutcomes == {"ok", "empty", "raise"}

\* str(record_id)
RidStr(n) == <<ToString(n)>>
Rids == {RidStr(n) : n \in 1..MaxRid}

-----------------------------------------------------------------------------
(* Exceptions.  esc is what is propagating: "none", an Exception (the      *)
(* provider SDK's, or certbot's PluginError) or SystemExit (sys.exit).     *)

Catchable == {"Exception", "PluginError"}

\* try: ... except Exception as e: log
Swallow(w) == IF w.esc \in Catchable THEN [w EXCEPT !.esc = "none"] ELSE w

\* try: ... except Exception as e: log; sys.exit(1)
ExitOnException(w) == IF w.esc \in Catchable THEN [w EXCEPT !.esc = "SystemExit"] ELSE w

\* try: ... except Exception as e: log; raise errors.PluginError(...)
RaisePluginError(w) == IF w.esc \in Catchable THEN [w EXCEPT !.esc = "PluginError"] ELSE w

Called(w, api, arg, out) == [w EXCEPT !.calls = Append(@, [api |-> api, arg |-> arg, out |-> out])]

-----------------------------------------------------------------------------
(* The DNS provider (Alibaba Cloud DNS), as the handlers use it            *)

\* AddDomainRecord: on "ok" a record with a fresh id exists and the response carries
\* its id; on "noid" the response carries no record id; "raise" is an SDK exception
AddDomainRecord(w, zone, rr, out) ==
    LET w1 == Called(w, "AddDomainRecord", rr, out)
    IN  CASE out = "ok" ->
               [w1 EXCEPT !.records = @ \cup {[n |-> w.nextRid, zone |-> zone, rr |-> rr]},
                          !.nextRid = @ + 1,
                          !.ret = RidStr(w.nextRid)]
          [] out = "noid" -> [w1 EXCEPT !.ret = NoId]
          [] OTHER -> [w1 EXCEPT !.ret = NoId, !.esc = "Exception"]

\* DeleteDomainRecord: on "ok" the record is gone and the response carries a request
\* id; "unconfirmed" is a response without request id; "raise" an SDK exception
DeleteDomainRecord(w, rid, out) ==
    LET w1 == Called(w, "DeleteDomainRecord", rid, out)
    IN  CASE out = "ok" -> [w1 EXCEPT !.records = {r \in @ : RidStr(r.n) # rid}, !.ret = TRUE]
          [] out = "unconfirmed" -> [w1 EXCEPT !.ret = FALSE]
          [] OTHER -> [w1 EXCEPT !.ret = FALSE, !.esc = "Exception"]

\* the ids of a set of records as a list, in the order of their numbers
RECURSIVE IdList(_)
IdList(rs) ==
    IF rs = {} THEN <<>>
    ELSE LET r == CHOOSE x \in rs : \A y \in rs : x.n <= y.n
         IN  <<RidStr(r.n)>> \o IdList(rs \ {r})

\* DescribeDomainRecords(domain_name, rrkey_word, type="TXT"): the records of the zone
\* whose host contains the keyword (the provider searches RRKeyWord as %keyword%)
DescribeDomainRecords(w, zone, keyword, out) ==
    LET w1 == Called(w, "DescribeDomainRecords", keyword, out)
    IN  CASE out = "ok" ->
               [w1 EXCEPT !.ret = IdList({r \in w.records : r.zone = zone /\ Contains(r.rr, keyword)})]
          [] out = "empty" -> [w1 EXCEPT !.ret = <<>>]
          [] OTHER -> [w1 EXCEPT !.ret = <<>>, !.esc = "Exception"]

-----------------------------------------------------------------------------
(* alidns_hook.py                                                          *)

\* the root domain the hook derives from CERTBOT_DOMAIN
RootDomain(domain) ==
    IF StartsWith(domain, Star \o Dot) THEN DropFirst(domain, 2)
    ELSE LET parts == Split(domain, ".")
         IN  IF Len(parts) >= 2
             THEN Join(SubSeq(parts, Len(parts) - 1, Len(parts)), Dot)
             ELSE domain

\* if ".*." in validation_name: validation_name = validation_name.replace(".*.", ".")
Collapse(vn) ==
    IF Contains(vn, Dot \o Star \o Dot) THEN Replace(vn, Dot \o Star \o Dot, Dot) ELSE vn

\* the record host taken to be the validation name as it is
Subdomain_verbatim(vn, root) == vn

\* the record host relative to the zone
Subdomain(vn, root) ==
    IF EndsWith(vn, Dot \o root) THEN DropLast(vn, Len(root) + 1)
    ELSE IF vn = root THEN <<"@">>
    ELSE RStrip(vn, ".")

\* safe_name = validation_name.replace(".", "_").replace("*", "wildcard")
SafeName(vn) ==
    Replace(Replace(vn, Dot, <<"_">>), Star, <<"w", "i", "l", "d", "c", "a", "r", "d">>)

\* record_dir / f"{safe_name}.txt"
MarkerFile(vn) == SafeName(vn) \o <<".", "t", "x", "t">>

\* The derivations above, tabulated over the names of the model (evaluated once)
HookNames == {ValidationName(d) : d \in HookDomains}
                 \cup {Collapse(ValidationName(d)) : d \in HookDomains}
                 \cup {a.vn : a \in CallArgs}
RootDomainOf == [d \in HookDomains |-> RootDomain(d)]
CollapseOf == [vn \in HookNames |-> Collapse(vn)]
MarkerFileOf == [vn \in HookNames |-> MarkerFile(vn)]

\* get_alidns_client(): sys.exit(1) without credentials
get_alidns_client(c, w) ==
    IF c.ALIBABA_CLOUD_ACCESS_KEY_ID /\ c.ALIBABA_CLOUD_ACCESS_KEY_SECRET
    THEN w
    ELSE [w EXCEPT !.esc = "SystemExit"]

\* save_record_id writing a file of its own for every record id
save_record_id_keeps(m, vn, rid) ==
    m \cup {[file |-> MarkerFileOf[vn], content |-> vn \o Colon \o rid]}

\* save_record_id: write "name:record_id" to the name's file, replacing the file
save_record_id(m, vn, rid) ==
    {x \in m : x.file # MarkerFileOf[vn]}
        \cup {[file |-> MarkerFileOf[vn], content |-> vn \o Colon \o rid]}

\* get_record_id: the id in the name's file when the file starts with "name:"
get_record_id(m, vn) ==
    IF \E x \in m : x.file = MarkerFileOf[vn]
    THEN LET content == (CHOOSE x \in m : x.file = MarkerFileOf[vn]).content
         IN  IF StartsWith(content, vn \o Colon) THEN AfterFirst(content, ":") ELSE NoId
    ELSE NoId

\* remove_record_id: unlink the name's file if it exists
remove_record_id(m, vn) == {x \in m : x.file # MarkerFileOf[vn]}

\* delete_single_record with the handler of add_txt_record (log, then sys.exit(1))
delete_single_record_exits(w, rid, vn, out) ==
    LET w1 == DeleteDomainRecord(w, rid, out)
    IN  ExitOnException(IF w1.esc = "none" /\ w1.ret
                        THEN [w1 EXCEPT !.markers = remove_record_id(@, vn)]
                        ELSE w1)

\* delete_single_record removing the marker whatever the provider answered
delete_single_record_forgets(w, rid, vn, out) ==
    LET w1 == DeleteDomainRecord(w, rid, out)
    IN  Swallow([w1 EXCEPT !.markers = remove_record_id(@, vn)])

\* delete_single_record(client, record_id, validation_name)
delete_single_record(w, rid, vn, out) ==
    LET w1 == DeleteDomainRecord(w, rid, out)
    IN  Swallow(IF w1.esc = "none" /\ w1.ret
                THEN [w1 EXCEPT !.markers = remove_record_id(@, vn)]
                ELSE w1)

\* the loop of delete_by_api left at the first delete that is not confirmed
RECURSIVE DeleteEach_until_failure(_, _, _, _)
DeleteEach_until_failure(w, rids, vn, douts) ==
    IF rids = <<>> \/ w.esc # "none" THEN w
    ELSE IF douts[Head(rids)] # "ok" THEN delete_single_record(w, Head(rids), vn, douts[Head(rids)])
    ELSE DeleteEach_until_failure(delete_single_record(w, Head(rids), vn, douts[Head(rids)]),
                                  Tail(rids), vn, douts)

\* for record in records: delete_single_record(client, record.record_id, validation_name)
RECURSIVE DeleteEach(_, _, _, _)
DeleteEach(w, rids, vn, douts) ==
    IF rids = <<>> \/ w.esc # "none" THEN w
    ELSE DeleteEach(delete_single_record(w, Head(rids), vn, douts[Head(rids)]),
                    Tail(rids), vn, douts)

\* delete_by_api(client, root_domain, validation_name)
delete_by_api(w, root, vn, qout, douts) ==
    LET name == CollapseOf[vn]
        w1 == DescribeDomainRecords(w, root, Subdomain(name, root), qout)
    IN  Swallow(IF w1.esc = "none" /\ w1.ret # <<>>
                THEN DeleteEach(w1, w1.ret, name, douts)
                ELSE w1)

\* add_txt_record with the handler of delete_txt_record (log, no exit) and without
\* the exit on a response that carries no record id
add_txt_record_swallows(c, w, domain, vn, cout) ==
    LET w0 == get_alidns_client(c, w)
        root == RootDomainOf[domain]
        name == CollapseOf[vn]
        w1 == AddDomainRecord(w0, root, Subdomain(name, root), cout)
    IN  IF w0.esc # "none" THEN w0
        ELSE Swallow(IF w1.esc # "none" THEN w1
                     ELSE [w1 EXCEPT !.markers = save_record_id(@, name, w1.ret)])

\* add_txt_record(domain, validation_name, validation)
add_txt_record(c, w, domain, vn, cout) ==
    LET w0 == get_alidns_client(c, w)
        root == RootDomainOf[domain]
        name == CollapseOf[vn]
        w1 == AddDomainRecord(w0, root, Subdomain(name, root), cout)
    IN  IF w0.esc # "none" THEN w0
        ELSE ExitOnException(
                 IF w1.esc # "none" THEN w1
                 ELSE IF w1.ret # NoId
                 THEN [w1 EXCEPT !.markers = save_record_id(@, name, w1.ret)]
                 ELSE [w1 EXCEPT !.esc = "SystemExit"])

\* delete_txt_record without the lookup through the provider
delete_txt_record_marker_only(c, w, domain, vn, qout, douts) ==
    LET w0 == get_alidns_client(c, w)
        name == CollapseOf[vn]
        rid == get_record_id(w.markers, name)
    IN  IF w0.esc # "none" THEN w0
        ELSE Swallow(IF rid # NoId
                     THEN delete_single_record(w0, rid, name, douts[rid])
                     ELSE w0)

\* delete_txt_record(domain, validation_name, validation)
delete_txt_record(c, w, domain, vn, qout, douts) ==
    LET w0 == get_alidns_client(c, w)
        root == RootDomainOf[domain]
        name == CollapseOf[vn]
        rid == get_record_id(w.markers, name)
    IN  IF w0.esc # "none" THEN w0
        ELSE Swallow(IF rid # NoId
                     THEN delete_single_record(w0, rid, name, douts[rid])
                     ELSE delete_by_api(w0, root, name, qout, douts))


-----------------------------------------------------------------------------
(* dns_alidns.py: the certbot plugin                                       *)

\* Authenticator._setup_credentials: self.domain, from the first configured domain
PluginDomain(c) ==
    LET d == c.CERT_DOMAINS[1]
    IN  IF StartsWith(d, Star \o Dot) THEN DropFirst(d, 2) ELSE d

\* Authenticator._get_alidns_client: PluginError without credentials or domains
Authenticator_get_alidns_client(c, w) ==
    IF c.ALIBABA_CLOUD_ACCESS_KEY_ID /\ c.ALIBABA_CLOUD_ACCESS_KEY_SECRET
       /\ c.CERT_DOMAINS # <<>>
    THEN w
    ELSE [w EXCEPT !.esc = "PluginError"]

\* AlidnsHandler._save_record_id: one file per "name:record_id" (named by its hash)
Handler_save_record_id(t, vn, rid) == t \cup {vn \o Colon \o rid}

\* AlidnsHandler._get_record_id returns the id of the first file (in glob order, which
\* is not specified) that starts with "name:": every id it can return, {NoId} if none
Handler_get_record_id(t, vn) ==
    LET hits == {content \in t : StartsWith(content, vn \o Colon)}
    IN  IF hits = {} THEN {NoId} ELSE {AfterFirst(content, ":") : content \in hits}

\* AlidnsHandler._remove_record_id: unlink every file that starts with "name:"
Handler_remove_record_id(t, vn) == {content \in t : ~StartsWith(content, vn \o Colon)}

\* AlidnsHandler._delete_single_txt_record(record_id, validation_name)
Handler_delete_single_txt_record(w, rid, vn, out) ==
    LET w1 == DeleteDomainRecord(w, rid, out)
    IN  Swallow(IF w1.esc = "none" /\ w1.ret
                THEN [w1 EXCEPT !.tmpfiles = Handler_remove_record_id(@, vn)]
                ELSE w1)

\* for record in existing_records: self._delete_single_txt_record(...)
RECURSIVE Handler_DeleteEach(_, _, _, _)
Handler_DeleteEach(w, rids, vn, douts) ==
    IF rids = <<>> \/ w.esc # "none" THEN w
    ELSE Handler_DeleteEach(
             Handler_delete_single_txt_record(w, Head(rids), vn, douts[Head(rids)]),
             Tail(rids), vn, douts)

\* AlidnsHandler._get_existing_txt_records(subdomain): [] on an exception
Handler_get_existing_txt_records(w, zone, sub, qout) ==
    Swallow(DescribeDomainRecords(w, zone, sub, qout))

\* AlidnsHandler.add_txt_record(domain, validation_name, validation)
Handler_add_txt_record(w, zone, vn, cout) ==
    LET w1 == AddDomainRecord(w, zone, Subdomain(vn, zone), cout)
    IN  RaisePluginError(
            IF w1.esc # "none" THEN w1
            ELSE IF w1.ret # NoId
            THEN [w1 EXCEPT !.tmpfiles = Handler_save_record_id(@, vn, w1.ret)]
            ELSE [w1 EXCEPT !.esc = "PluginError"])

\* AlidnsHandler.del_txt_record(domain, validation_name, validation); rid is what
\* _get_record_id returned
Handler_del_txt_record(w, zone, vn, rid, qout, douts) ==
    LET w1 == Handler_get_existing_txt_records(w, zone, Subdomain(vn, zone), qout)
    IN  Swallow(IF rid = NoId
                THEN IF w1.ret = <<>> THEN w1
                     ELSE Handler_DeleteEach(w1, w1.ret, vn, douts)
                ELSE Handler_delete_single_txt_record(w, rid, vn, douts[rid]))

-----------------------------------------------------------------------------
(* Configuration (config.py)                                               *)

\* CERT_DOMAINS = os.getenv("CERT_DOMAINS", "example.com,*.example.com").split(",")
DefaultCertDomains == D_ec \o <<",">> \o D_wild_ec
CertDomainsFromEnv(value) == Split(value, ",")

\* an environment variable: not set, or set to a string
Unset == [set |-> FALSE, value |-> <<>>]
EnvOf(value) == [set |-> TRUE, value |-> value]

\* os.getenv(name, default)
getenv(env, default) == IF env.set THEN env.value ELSE default

\* int(s) for a decimal numeral with an optional sign
DigitValue(ch) ==
    CASE ch = "0" -> 0 [] ch = "1" -> 1 [] ch = "2" -> 2 [] ch = "3" -> 3 [] ch = "4" -> 4
      [] ch = "5" -> 5 [] ch = "6" -> 6 [] ch = "7" -> 7 [] ch = "8" -> 8 [] ch = "9" -> 9

RECURSIVE DigitsValue(_)
DigitsValue(s) ==
    IF s = <<>> THEN 0 ELSE DigitsValue(DropLast(s, 1)) * 10 + DigitValue(s[Len(s)])

int(s) == IF Head(s) = "-" THEN 0 - DigitsValue(Tail(s)) ELSE DigitsValue(s)

\* CRON_INTERVAL_HOURS = int(os.getenv("CRON_INTERVAL_HOURS", "12"))
CRON_INTERVAL_HOURS(env) == int(getenv(env, <<"1", "2">>))

\* The Config attributes.  A credential or id is TRUE when it is a non-empty string.
ConfigOf(keyId, secret, domains, email, instanceId, listenerId) ==
    [ALIBABA_CLOUD_ACCESS_KEY_ID |-> keyId,
     ALIBABA_CLOUD_ACCESS_KEY_SECRET |-> secret,
     CERT_DOMAINS |-> domains,
     CERT_EMAIL |-> email,
     SLB_INSTANCE_ID |-> instanceId,
     SLB_LISTENER_ID |-> listenerId]

\* the configurations the DNS handlers are run under: with and without credentials
DnsConfigs ==
    {ConfigOf(k, TRUE, CertDomainsFromEnv(DefaultCertDomains), TRUE, TRUE, TRUE) : k \in BOOLEAN}

-----------------------------------------------------------------------------
(* config.py: Config.validate                                              *)

\* Config.validate(): the list of errors
validate(c) ==
    (IF ~c.ALIBABA_CLOUD_ACCESS_KEY_ID THEN <<"ALIBABA_CLOUD_ACCESS_KEY_ID is required">> ELSE <<>>)
    \o (IF ~c.ALIBABA_CLOUD_ACCESS_KEY_SECRET THEN <<"ALIBABA_CLOUD_ACCESS_KEY_SECRET is required">> ELSE <<>>)
    \o (IF c.CERT_DOMAINS = <<>> THEN <<"CERT_DOMAINS is required">> ELSE <<>>)
    \o (IF ~c.CERT_EMAIL THEN <<"CERT_EMAIL is required">> ELSE <<>>)
    \o (IF ~c.SLB_INSTANCE_ID THEN <<"SLB_INSTANCE_ID is required">> ELSE <<>>)
    \o (IF ~c.SLB_LISTENER_ID THEN <<"SLB_LISTENER_ID is required for certificate deployment">> ELSE <<>>)

-----------------------------------------------------------------------------
(* update_slb_cert.py                                                      *)

\* a certificate file of a certbot live directory: what the store will show as the
\* uploaded bundle's CommonName and Sans, whether openssl can read it, and its
\* notAfter (GMT, in hours)
CertOf(readable, notAfter) ==
    [cn |-> D_ec, sans |-> D_ec \o <<",">> \o D_wild_ec, readable |-> readable, notAfter |-> notAfter]

\* CERTBOT_CONFIG_DIR/live: absent, or holding directories (in directory order) with
\* or without fullchain.pem and privkey.pem
LiveMissing == [exists |-> FALSE, dirs |-> <<>>]
LiveEmpty == [exists |-> TRUE, dirs |-> <<>>]
LiveOf(name, privkey, cert) ==
    [exists |-> TRUE,
     dirs |-> <<[name |-> name, fullchain |-> TRUE, privkey |-> privkey, cert |-> cert]>>]

NoDir == [name |-> <<>>, fullchain |-> FALSE, privkey |-> FALSE, cert |-> CertOf(FALSE, 0)]

\* get_latest_certificate_paths(): the directory whose fullchain.pem and privkey.pem
\* are returned, NoDir for (None, None)
get_latest_certificate_paths(c, lv) ==
    IF ~lv.exists \/ c.CERT_DOMAINS = <<>> THEN NoDir
    ELSE IF c.CERT_DOMAINS[1] = <<>> THEN NoDir  \* live/"" is live itself: no fullchain.pem
    ELSE LET primary == c.CERT_DOMAINS[1]
             exact == {i \in 1..Len(lv.dirs) : lv.dirs[i].name = primary}
             dir == IF exact # {} THEN lv.dirs[CHOOSE i \in exact : TRUE]
                    ELSE IF lv.dirs = <<>> THEN NoDir
                    ELSE lv.dirs[1]
         IN  IF dir.fullchain /\ dir.privkey THEN dir ELSE NoDir

\* the bundles of the store a domain is found in:
\* (cert_name and domain in cert_name) or (common_name and ...) or (sans and ...)
DomainMatches(cert, domain) ==
    \/ cert.name # <<>> /\ Contains(cert.name, domain)
    \/ cert.cn # <<>> /\ Contains(cert.cn, domain)
    \/ cert.sans # <<>> /\ Contains(cert.sans, domain)

MatchesOf(certs, domain) == {cert \in certs : DomainMatches(cert, domain)}

\* cert_name = "-".join(domain_list[:2]) + "-" + timestamp [+ "-and-N-more"];
\* "T" stands for the timestamp, "+" for the "-and-N-more" suffix
CertName(c) ==
    LET domain_list == SelectSeq(c.CERT_DOMAINS, LAMBDA d : d # <<>>)
    IN  Join(SubSeq(domain_list, 1, IF Len(domain_list) < 2 THEN Len(domain_list) ELSE 2), <<"-">>)
            \o <<"-", "T">> \o (IF Len(domain_list) > 2 THEN <<"+">> ELSE <<>>)

\* the listener is bound to no certificate
NotBound == 0

\* statement sequencing: v is evaluated once and its value handed to the rest, F
AndThen(v, F(_)) == CHOOSE y \in {F(x) : x \in {v}} : TRUE

DCalled(r, api, arg, out) == [r EXCEPT !.calls = Append(@, [api |-> api, arg |-> arg, out |-> out])]

\* CertificateManager.find_certificate_for_domain(domain): one listing call; the
\* first bundle of the listing that matches, 0 when none does or the listing failed.
\* found is what the oracle says the listing put first: [out, pick]
find_certificate_for_domain(r, o, domain, found) ==
    IF ~o.cas THEN [r EXCEPT !.ret = 0]
    ELSE [DCalled(r, "ListUserCertificateOrder", domain, found.out) EXCEPT
              !.ret = IF found.out = "ok" THEN found.pick ELSE 0]

\* for domain in Config.CERT_DOMAINS: ... existing_certs.append(existing_cert)
RECURSIVE FindExisting(_, _, _, _)
FindExisting(r, o, c, i) ==
    IF i > Len(c.CERT_DOMAINS) THEN r
    ELSE IF c.CERT_DOMAINS[i] = <<>> THEN FindExisting(r, o, c, i + 1)
    ELSE AndThen(find_certificate_for_domain(r, o, c.CERT_DOMAINS[i], o.found[i]),
                 LAMBDA r1 :
                     FindExisting(
                         IF r1.ret # 0 /\ \A k \in 1..Len(r1.existing) : r1.existing[k] # r1.ret
                         THEN [r1 EXCEPT !.existing = Append(@, r1.ret)]
                         ELSE r1,
                         o, c, i + 1))

\* CertificateManager.delete_certificate(cert_id)
delete_certificate(r, o, id) ==
    IF ~o.cas THEN [r EXCEPT !.ret = FALSE]
    ELSE LET ok == o.dels[id]
         IN  [DCalled(r, "DeleteUserCertificate", id, IF ok THEN "ok" ELSE "fail") EXCEPT
                  !.store = IF ok THEN {cert \in @ : cert.id # id} ELSE @,
                  !.ret = ok]

\* for cert in existing_certs: cert_manager.delete_certificate(str(cert_id))
RECURSIVE DeleteExisting(_, _, _)
DeleteExisting(r, o, ids) ==
    IF ids = <<>> THEN r
    ELSE DeleteExisting(delete_certificate(r, o, Head(ids)), o, Tail(ids))

\* CertificateManager.upload_certificate(name, cert, key): on "ok" and "nores" the
\* bundle is in the store, and only on "ok" the response carries a ResourceId
upload_certificate(r, o, name, cert) ==
    IF ~o.cas THEN [r EXCEPT !.ret = 0]
    ELSE LET r1 == DCalled(r, "UploadUserCertificate", name, o.up)
         IN  IF o.up \in {"ok", "nores"}
             THEN [r1 EXCEPT !.store = @ \cup {[id |-> r.nextCertId, name |-> name,
                                               cn |-> cert.cn, sans |-> cert.sans]},
                             !.nextCertId = @ + 1,
                             !.ret = r.nextCertId, !.uploaded = r.nextCertId,
                             !.resource = o.up = "ok"]
             ELSE [r1 EXCEPT !.ret = 0]

\* SLBManager.update_listener_certificate(listener_id, certificate_id); tried keeps
\* what each invocation was given and returned, with or without a client
update_listener_certificate(r, o, ident, ok) ==
    IF ~o.alb THEN [r EXCEPT !.ret = FALSE, !.tried = Append(@, [ident |-> ident, ok |-> FALSE])]
    ELSE [DCalled(r, "UpdateListenerAttribute", ident, IF ok THEN "ok" ELSE "fail") EXCEPT
              !.listener = IF ok THEN ident.id ELSE @,
              !.tried = Append(@, [ident |-> ident, ok |-> ok]),
              !.ret = ok]

\* save_deployment_info(load_balancer_id, listener_id, primary_cert_id, all_cert_ids)
save_deployment_info(r, id) == [r EXCEPT !.deployFile = id, !.wrote = TRUE]

\* step 5 of manage_certificates() with the first identifier only
DeployToListener_once(r, o, c) ==
    LET res == [kind |-> "res", id |-> r.uploaded]
        cas == [kind |-> "cert", id |-> r.uploaded]
    IN  IF ~(c.SLB_LISTENER_ID /\ r.uploaded # 0) THEN r
        ELSE AndThen(update_listener_certificate(r, o, IF r.resource THEN res ELSE cas, o.upd1),
                     LAMBDA first :
                         IF first.ret THEN save_deployment_info(first, r.uploaded)
                         ELSE [first EXCEPT !.success = FALSE])

\* manage_certificates(), step 5: deploy to the listener
DeployToListener(r, o, c) ==
    LET res == [kind |-> "res", id |-> r.uploaded]
        cas == [kind |-> "cert", id |-> r.uploaded]
    IN  IF ~(c.SLB_LISTENER_ID /\ r.uploaded # 0) THEN r
        ELSE IF r.resource
        THEN AndThen(update_listener_certificate(r, o, res, o.upd1),
                     LAMBDA first :
                         IF first.ret THEN save_deployment_info(first, r.uploaded)
                         ELSE AndThen(update_listener_certificate(first, o, cas, o.upd2),
                                      LAMBDA second :
                                          save_deployment_info(
                                              IF second.ret THEN second
                                              ELSE [second EXCEPT !.success = FALSE],
                                              r.uploaded)))
        ELSE AndThen(update_listener_certificate(r, o, cas, o.upd1),
                     LAMBDA first :
                         IF first.ret THEN save_deployment_info(first, r.uploaded)
                         ELSE [first EXCEPT !.success = FALSE])

\* steps 3 and 4 of manage_certificates() without "success = False" after a failed upload
ReplaceBundles_upload_unchecked(found, o, c, cert) ==
    AndThen(DeleteExisting(found, o, found.existing),
            LAMBDA deleted :
                AndThen(upload_certificate(deleted, o, CertName(c), cert),
                        LAMBDA sent : DeployToListener(sent, o, c)))

\* steps 3 and 4 of manage_certificates() giving up after a failed delete
ReplaceBundles_delete_checked(found, o, c, cert) ==
    AndThen(DeleteExisting(found, o, found.existing),
            LAMBDA deleted :
                IF \E k \in 1..Len(deleted.calls) :
                       deleted.calls[k].api = "DeleteUserCertificate" /\ deleted.calls[k].out = "fail"
                THEN [deleted EXCEPT !.success = FALSE]
                ELSE AndThen(upload_certificate(deleted, o, CertName(c), cert),
                             LAMBDA sent :
                                 IF sent.ret # 0 THEN DeployToListener(sent, o, c)
                                 ELSE DeployToListener([sent EXCEPT !.success = FALSE], o, c)))

\* manage_certificates(), steps 3 and 4: delete what was found, upload the new bundle
ReplaceBundles(found, o, c, cert) ==
    AndThen(DeleteExisting(found, o, found.existing),
            LAMBDA deleted :
                AndThen(upload_certificate(deleted, o, CertName(c), cert),
                        LAMBDA sent :
                            IF sent.ret # 0 THEN DeployToListener(sent, o, c)
                            ELSE DeployToListener([sent EXCEPT !.success = FALSE], o, c)))

\* manage_certificates() without its call of Config.validate()
manage_certificates_unvalidated(c, lv, r, o) ==
    AndThen(get_latest_certificate_paths(c, lv),
            LAMBDA dir :
                IF dir = NoDir THEN [r EXCEPT !.success = FALSE]
                ELSE IF ~o.readable THEN [r EXCEPT !.success = FALSE]
                ELSE AndThen(FindExisting(r, o, c, 1),
                             LAMBDA found : ReplaceBundles(found, o, c, dir.cert)))

\* manage_certificates(): lv is the live directory, r the world the run starts in, o
\* the run's environment (whether files and clients are usable, how each call ends)
manage_certificates(c, lv, r, o) ==
    IF validate(c) # <<>> THEN [r EXCEPT !.success = FALSE]
    ELSE AndThen(get_latest_certificate_paths(c, lv),
                 LAMBDA dir :
                     IF dir = NoDir THEN [r EXCEPT !.success = FALSE]
                     ELSE IF ~o.readable THEN [r EXCEPT !.success = FALSE]
                     ELSE AndThen(FindExisting(r, o, c, 1),
                                  LAMBDA found : ReplaceBundles(found, o, c, dir.cert)))

-----------------------------------------------------------------------------
(* renew_cert.py                                                           *)

\* timedelta(days=30)
RenewalDays == 30

\* days in hours, the unit of the clock
Days(n) == n * 24

\* datetime.now(): the naive local time
LocalNow(utc, offset) == utc + offset

\* find_certificate_file(): the directory whose fullchain.pem is returned, NoDir for
\* None.  The configured domains are tried in order, then any directory.
find_certificate_file(c, lv) ==
    LET named == {i \in 1..Len(c.CERT_DOMAINS) :
                      \E k \in 1..Len(lv.dirs) :
                          lv.dirs[k].name = c.CERT_DOMAINS[i] /\ lv.dirs[k].fullchain}
        first == CHOOSE i \in named : \A j \in named : i <= j
        any == {k \in 1..Len(lv.dirs) : lv.dirs[k].fullchain}
    IN  IF ~lv.exists THEN NoDir
        ELSE IF named # {}
        THEN lv.dirs[CHOOSE k \in 1..Len(lv.dirs) :
                         lv.dirs[k].name = c.CERT_DOMAINS[first] /\ lv.dirs[k].fullchain]
        ELSE IF any # {} THEN lv.dirs[CHOOSE k \in any : \A j \in any : k <= j]
        ELSE NoDir

\* get_certificate_expiry_from_file(): strptime(..., "%b %d %H:%M:%S %Y %Z") of the
\* notAfter line gives the naive datetime of the GMT reading; None when openssl fails
NoExpiry == [read |-> FALSE, at |-> 0]
get_certificate_expiry_from_file(dir) ==
    IF dir.cert.readable THEN [read |-> TRUE, at |-> dir.cert.notAfter] ELSE NoExpiry

\* check_certificate_expiry(): now is datetime.now()
check_certificate_expiry(c, lv, now) ==
    LET cert_path == find_certificate_file(c, lv)
        expiry_date == get_certificate_expiry_from_file(cert_path)
        renewal_threshold == now + Days(RenewalDays)
    IN  IF cert_path = NoDir THEN TRUE
        ELSE IF ~expiry_date.read THEN TRUE
        ELSE expiry_date.at < renewal_threshold

\* how a run of certbot may end: with exit code 0, with another exit code, or not
\* started at all (mkdir or subprocess.run raises)
CertbotOutcomes == {"ok", "failed", "error"}

\* renew_certificate(): runs certbot certonly --force-renewal --cert-name <first domain>;
\* on success certbot has put the new certificate into live/<first domain>
renew_certificate(c, lv, utc, out) ==
    [calls |-> IF out = "error" THEN <<>>
               ELSE <<[api |-> "certbot", force_renewal |-> TRUE, out |-> out]>>,
     raised |-> out = "error",
     ret |-> out = "ok",
     live |-> IF out = "ok"
              THEN LiveOf(c.CERT_DOMAINS[1], TRUE, CertOf(TRUE, utc + Days(IssuedDays)))
              ELSE lv]

\* main() going on to renew_certificate() whatever check_certificate_expiry() returned
renew_cert_main_unchecked(c, lv, utc, offset, out) ==
    LET needs_renewal == check_certificate_expiry(c, lv, LocalNow(utc, offset))
        renewed == renew_certificate(c, lv, utc, out)
        seen == [ran |-> TRUE, file |-> find_certificate_file(c, lv).cert, utc |-> utc,
                 found |-> find_certificate_file(c, lv) # NoDir,
                 needs |-> FALSE, calls |-> <<>>, raised |-> FALSE, live |-> lv, exit |-> 1]
    IN  IF validate(c) # <<>> THEN seen
        ELSE [seen EXCEPT !.needs = needs_renewal, !.calls = renewed.calls,
                          !.raised = renewed.raised, !.live = renewed.live,
                          !.exit = IF renewed.ret THEN 0 ELSE 1]

\* renew_cert.main(): the exit code, with what the run saw and did
renew_cert_main(c, lv, utc, offset, out) ==
    LET needs_renewal == check_certificate_expiry(c, lv, LocalNow(utc, offset))
        renewed == renew_certificate(c, lv, utc, out)
        seen == [ran |-> TRUE, file |-> find_certificate_file(c, lv).cert, utc |-> utc,
                 found |-> find_certificate_file(c, lv) # NoDir,
                 needs |-> FALSE, calls |-> <<>>, raised |-> FALSE, live |-> lv, exit |-> 1]
    IN  IF validate(c) # <<>> THEN seen
        ELSE IF ~needs_renewal THEN [seen EXCEPT !.exit = 0]
        ELSE [seen EXCEPT !.needs = TRUE, !.calls = renewed.calls,
                          !.raised = renewed.raised, !.live = renewed.live,
                          !.exit = IF renewed.ret THEN 0 ELSE 1]

-----------------------------------------------------------------------------
(* The DNS handlers as a state machine                                     *)

\* the names the markers are kept under
DnsNames == {Collapse(ValidationName(d)) : d \in HookDomains} \cup PluginNames

World == [records |-> records, markers |-> markers, tmpfiles |-> tmpfiles,
          nextRid |-> nextRid, calls |-> <<>>, esc |-> "none", ret |-> NoId]

NoCall == [domain |-> <<>>, vn |-> <<>>, zone |-> <<>>]

IdleLog == [op |-> "none", name |-> NoId, calls |-> <<>>, esc |-> "none",
            expect |-> NoId, before |-> {}, had |-> {}]

\* no present yet
NoSession == [phase |-> "presenting", out |-> [n \in DnsNames |-> 0], twice |-> FALSE]

\* the sequence was left: a call failed, or a run came out of turn
Broken == [NoSession EXCEPT !.phase = "broken"]

\* every provider call of the run w succeeded and the run ended normally
AllSucceeded(w) == w.esc = "none" /\ \A k \in 1..Len(w.calls) : w.calls[k].out = "ok"

\* the session after the run w of op for name: it goes on while successful presents are
\* followed by successful cleanups, one for each present of the name
SessionAfter(op, name, w) ==
    IF session.phase = "broken" \/ ~AllSucceeded(w) THEN Broken
    ELSE IF op = "present"
    THEN IF session.phase = "presenting"
         THEN [session EXCEPT !.out[name] = @ + 1, !.twice = @ \/ session.out[name] >= 1]
         ELSE Broken
    ELSE IF session.out[name] > 0
         THEN [session EXCEPT !.phase = "cleaning", !.out[name] = @ - 1]
         ELSE Broken

DnsInit ==
    /\ impl \in {"hook", "plugin"}
    /\ markers = {}
    /\ tmpfiles = {}
    /\ records = {}
    /\ nextRid = 1
    /\ hlog = IdleLog
    /\ stored = [n \in DnsNames |-> NoId]
    /\ asked = NoCall
    /\ session = NoSession
    /\ created = [r \in Rids |-> NoId]

\* the state after a handler ran: w is the world it left, name the marker key
Ran(op, name, w) ==
    /\ markers' = w.markers
    /\ tmpfiles' = w.tmpfiles
    /\ records' = w.records
    /\ nextRid' = w.nextRid
    /\ hlog' = [op |-> op, name |-> name, calls |-> w.calls, esc |-> w.esc,
                expect |-> stored[name],
                before |-> IF impl = "hook" THEN markers ELSE tmpfiles,
                had |-> records]
    /\ stored' = [stored EXCEPT ![name] =
                      IF op = "cleanup" THEN NoId
                      ELSE IF w.esc = "none" THEN w.ret
                      ELSE @]
    /\ session' = SessionAfter(op, name, w)
    /\ created' = IF w.nextRid > nextRid THEN [created EXCEPT ![RidStr(nextRid)] = name]
                  ELSE created
    /\ UNCHANGED <<cfg, chosen, live, impl, asked, deployVars, renewVars, tasklog, cronVars>>

\* the hook run by the ACME client without CERTBOT_AUTH_OUTPUT: main() -> add_txt_record
HookAuth ==
    /\ impl = "hook"
    /\ \E domain \in HookDomains, cout \in CreateOutcomes :
           /\ cout = "ok" => nextRid <= MaxRid
           /\ Ran("present", CollapseOf[ValidationName(domain)],
                  add_txt_record(cfg, World, domain, ValidationName(domain), cout))

\* The outcomes of the provider calls of one cleanup: qout for the query, douts[r] for
\* the delete of record id r.  Only the calls the cleanup can make are varied: a
\* cleanup that finds the id rid skips the query and deletes rid alone, one that
\* finds none deletes what the query returns.
CleanupOutcomes(rid, zone, sub) ==
    LET targets == IF rid # NoId THEN {rid}
                   ELSE {RidStr(r.n) : r \in {x \in records : x.zone = zone /\ Contains(x.rr, sub)}}
    IN  {[qout |-> q, douts |-> [r \in Rids |-> IF r \in targets THEN g[r] ELSE "ok"]] :
            q \in IF rid # NoId THEN {"ok"} ELSE QueryOutcomes,
            g \in [targets -> DeleteOutcomes]}

\* the hook run with CERTBOT_AUTH_OUTPUT set: main() -> delete_txt_record
HookCleanup ==
    /\ impl = "hook"
    /\ \E domain \in HookDomains :
           LET name == CollapseOf[ValidationName(domain)]
               root == RootDomainOf[domain]
           IN  \E o \in CleanupOutcomes(get_record_id(markers, name), root,
                                        Subdomain(name, root)) :
                   Ran("cleanup", name,
                       delete_txt_record(cfg, World, domain, ValidationName(domain),
                                         o.qout, o.douts))

\* Authenticator._perform(domain, validation_name, validation)
PluginPerform ==
    /\ impl = "plugin"
    /\ \E vn \in PluginNames, cout \in CreateOutcomes :
           /\ cout = "ok" => nextRid <= MaxRid
           /\ LET w0 == Authenticator_get_alidns_client(cfg, World)
              IN  Ran("present", vn,
                      IF w0.esc # "none" THEN w0
                      ELSE Handler_add_txt_record(w0, PluginDomain(cfg), vn, cout))

\* Authenticator._cleanup(domain, validation_name, validation)
PluginCleanup ==
    /\ impl = "plugin"
    /\ \E vn \in PluginNames :
       \E rid \in Handler_get_record_id(tmpfiles, vn) :
       \E o \in CleanupOutcomes(rid, PluginDomain(cfg), Subdomain(vn, PluginDomain(cfg))) :
           LET w0 == Authenticator_get_alidns_client(cfg, World)
           IN  Ran("cleanup", vn,
                   IF w0.esc # "none" THEN w0
                   ELSE Handler_del_txt_record(w0, PluginDomain(cfg), vn, rid,
                                               o.qout, o.douts))

NextDns == HookAuth \/ HookCleanup \/ PluginPerform \/ PluginCleanup

\* the state after a direct call of a handler function with the arguments a
Returned(op, a, zone, w) ==
    /\ markers' = w.markers
    /\ tmpfiles' = w.tmpfiles
    /\ records' = w.records
    /\ nextRid' = w.nextRid
    /\ hlog' = [op |-> op, name |-> a.vn, calls |-> w.calls, esc |-> w.esc,
                expect |-> NoId,
                before |-> IF impl = "hook" THEN markers ELSE tmpfiles,
                had |-> records]
    /\ asked' = [domain |-> a.domain, vn |-> a.vn, zone |-> zone]
    /\ UNCHANGED <<cfg, chosen, live, impl, stored, session, created, deployVars, renewVars, tasklog, cronVars>>

\* alidns_hook.add_txt_record(domain, validation_name, validation)
CallAddTxtRecord ==
    /\ impl = "hook"
    /\ \E a \in CallArgs, cout \in CreateOutcomes :
           /\ cout = "ok" => nextRid <= MaxCalled
           /\ Returned("present", a, RootDomainOf[a.domain],
                       add_txt_record(cfg, World, a.domain, a.vn, cout))

\* alidns_hook.delete_txt_record(domain, validation_name, validation)
CallDeleteTxtRecord ==
    /\ impl = "hook"
    /\ \E a \in CallArgs :
           LET name == CollapseOf[a.vn]
               root == RootDomainOf[a.domain]
           IN  \E o \in CleanupOutcomes(get_record_id(markers, name), root,
                                        Subdomain(name, root)) :
                   Returned("cleanup", a, root,
                            delete_txt_record(cfg, World, a.domain, a.vn, o.qout, o.douts))

\* AlidnsHandler.add_txt_record(domain, validation_name, validation)
CallHandlerAddTxtRecord ==
    /\ impl = "plugin"
    /\ \E a \in CallArgs, cout \in CreateOutcomes :
           /\ cout = "ok" => nextRid <= MaxCalled
           /\ Returned("present", a, PluginDomain(cfg),
                       Handler_add_txt_record(World, PluginDomain(cfg), a.vn, cout))

\* AlidnsHandler.del_txt_record(domain, validation_name, validation)
CallHandlerDelTxtRecord ==
    /\ impl = "plugin"
    /\ \E a \in CallArgs :
       \E rid \in Handler_get_record_id(tmpfiles, a.vn) :
       \E o \in CleanupOutcomes(rid, PluginDomain(cfg), Subdomain(a.vn, PluginDomain(cfg))) :
           Returned("cleanup", a, PluginDomain(cfg),
                    Handler_del_txt_record(World, PluginDomain(cfg), a.vn, rid, o.qout, o.douts))

NextCalls ==
    CallAddTxtRecord \/ CallDeleteTxtRecord \/ CallHandlerAddTxtRecord \/ CallHandlerDelTxtRecord


-----------------------------------------------------------------------------
(* Deployment runs as a state machine                                       *)

\* bundles of earlier issuances that may be in the store when a run starts
Old1 == [id |-> 1, name |-> <<"o", "1">>, cn |-> D_ec, sans |-> D_ec \o <<",">> \o D_wild_ec]
Old2 == [id |-> 2, name |-> <<"o", "2">>, cn |-> D_ec, sans |-> D_ec]
Other == [id |-> 3, name |-> <<"x">>, cn |-> <<"o", ".", "c">>, sans |-> <<"o", ".", "c">>]
OldBundles == {Old1, Old2, Other}

\* the configurations deployment runs under: complete, without a listener id, without
\* an instance id, and with CERT_DOMAINS set to the empty string
DeployConfigs ==
    {ConfigOf(TRUE, TRUE, CertDomainsFromEnv(DefaultCertDomains), TRUE, i, l) : i, l \in BOOLEAN}
        \cup {ConfigOf(TRUE, TRUE, CertDomainsFromEnv(<<>>), TRUE, TRUE, TRUE)}

\* the live directories deployment runs start with
DeployLives ==
    {LiveMissing, LiveEmpty, LiveOf(D_ec, TRUE, CertOf(TRUE, 0)), LiveOf(D_ec, FALSE, CertOf(TRUE, 0))}

IdleRun ==
    [ran |-> FALSE, env |-> [paths |-> FALSE, readable |-> FALSE, cas |-> FALSE, alb |-> FALSE],
     before |-> {}, calls |-> <<>>, existing |-> <<>>, uploaded |-> 0, tried |-> <<>>,
     wrote |-> FALSE,
     success |-> FALSE]

DeployInit ==
    /\ store \in {{}, {Old1}, {Old1, Old2}, {Old1, Other}}
    /\ nextCertId = Cardinality(OldBundles) + 1
    /\ listener = NotBound
    /\ deployFile = 0
    /\ dlog = IdleRun
    /\ prevClean = FALSE

\* what a listing for the domain may put first
FoundChoices(certs, domain) ==
    {[out |-> "fail", pick |-> 0]}
        \cup (IF MatchesOf(certs, domain) = {} THEN {[out |-> "ok", pick |-> 0]}
              ELSE {[out |-> "ok", pick |-> cert.id] : cert \in MatchesOf(certs, domain)})

\* the ids a run with these listings tries to delete
PickedIds(f) == {f[i].pick : i \in DOMAIN f} \ {0}

\* what may go wrong in a run: files that cannot be read, SDK clients that cannot be
\* built, and each kind of call failing
AllFaults == {"files", "clients", "list", "delete", "upload", "nores", "listener"}

\* how the listener updates of a run may end, <<client built, first, second>>: the
\* second attempt is made only after a failed first one for a bundle with a resource id
ListenerChoices(c, u, faults) ==
    IF ~c.SLB_LISTENER_ID \/ u = "fail" \/ "listener" \notin faults THEN {<<TRUE, TRUE, TRUE>>}
    ELSE {<<TRUE, TRUE, TRUE>>, <<TRUE, FALSE, TRUE>>}
             \cup (IF "clients" \in faults THEN {<<FALSE, TRUE, TRUE>>} ELSE {})
             \cup (IF u = "ok" THEN {<<TRUE, FALSE, FALSE>>} ELSE {})

\* the environments of a run: only what the run consults varies
DeployEnvs(c, lv, certs, next, faults) ==
    LET ids == 1..MaxCertId
        n == Len(c.CERT_DOMAINS)
        base == [readable |-> TRUE, cas |-> TRUE, alb |-> TRUE,
                 found |-> [i \in 1..n |-> [out |-> "fail", pick |-> 0]],
                 dels |-> [i \in ids |-> TRUE], up |-> "ok", upd1 |-> TRUE, upd2 |-> TRUE]
        choices == [i \in 1..n |->
                        {f \in FoundChoices(certs, c.CERT_DOMAINS[i]) : f.out = "ok" \/ "list" \in faults}]
        listings == {f \in [1..n -> UNION {choices[i] : i \in 1..n}] : \A i \in 1..n : f[i] \in choices[i]}
        uploads == {u \in {"ok", "nores", "fail"} :
                        /\ u # "fail" => next <= MaxCertId
                        /\ u # "ok" => (IF u = "fail" THEN "upload" ELSE u) \in faults \/ next > MaxCertId}
    IN  IF validate(c) # <<>> \/ get_latest_certificate_paths(c, lv) = NoDir THEN {base}
        ELSE (IF "files" \in faults THEN {[base EXCEPT !.readable = FALSE]} ELSE {})
            \cup (IF "clients" \in faults THEN {[base EXCEPT !.cas = FALSE, !.alb = a] : a \in BOOLEAN} ELSE {})
            \cup UNION {UNION {UNION {
                     {[base EXCEPT !.found = f, !.dels = [i \in ids |-> i \notin failing],
                                   !.up = u, !.alb = l[1], !.upd1 = l[2], !.upd2 = l[3]] :
                          l \in ListenerChoices(c, u, faults)} :
                     u \in uploads} :
                     failing \in IF "delete" \in faults THEN SUBSET PickedIds(f) ELSE {{}}} :
                     f \in listings}

\* no call of the run failed and nothing the run needs was missing
CleanRun(r, o) ==
    /\ r.success /\ o.cas /\ o.alb
    /\ \A k \in 1..Len(r.calls) : r.calls[k].out = "ok"

\* update_slb_cert.main() -> manage_certificates(), in an environment with these faults
DeployRun(faults) ==
    \E o \in DeployEnvs(cfg, live, store, nextCertId, faults) :
        \E r \in {manage_certificates(cfg, live,
                      [store |-> store, nextCertId |-> nextCertId, listener |-> listener,
                       deployFile |-> deployFile, calls |-> <<>>, existing |-> <<>>,
                       uploaded |-> 0, resource |-> FALSE, tried |-> <<>>,
                       wrote |-> FALSE,
                       success |-> TRUE, ret |-> 0], o)} :
            /\ store' = r.store
            /\ nextCertId' = r.nextCertId
            /\ listener' = r.listener
            /\ deployFile' = r.deployFile
            /\ dlog' = [ran |-> TRUE,
                        env |-> [paths |-> get_latest_certificate_paths(cfg, live) # NoDir,
                                 readable |-> o.readable, cas |-> o.cas, alb |-> o.alb],
                        before |-> store, calls |-> r.calls, existing |-> r.existing,
                        uploaded |-> r.uploaded, tried |-> r.tried, wrote |-> r.wrote,
                        success |-> r.success]
            /\ prevClean' = (dlog.ran /\ CleanRun(dlog, dlog.env))

\* update-slb-cert, run from the command line
ManageCertificates(faults) ==
    /\ DeployRun(faults)
    /\ UNCHANGED <<cfg, chosen, live, dnsVars, renewVars, tasklog, cronVars>>

NextDeploy == ManageCertificates(AllFaults)


-----------------------------------------------------------------------------
(* Renewal runs as a state machine                                          *)

\* the local time zones: GMT, and eight hours west and east of it
TzOffsets == {0 - 8, 0, 8}

\* the notAfter of the certificates renewal runs start with: around thirty days
ExpiryChoices == {Days(RenewalDays) + k : k \in {0 - 24, 0 - 4, 0, 4, 24}}

\* the live directories renewal runs start with
RenewLives ==
    {LiveMissing, LiveEmpty, LiveOf(D_ec, TRUE, CertOf(FALSE, 0))}
        \cup {LiveOf(D_ec, TRUE, CertOf(TRUE, h)) : h \in ExpiryChoices}

IdleRenew ==
    [ran |-> FALSE, file |-> NoDir.cert, utc |-> 0, found |-> FALSE, needs |-> FALSE,
     calls |-> <<>>, raised |-> FALSE, exit |-> 0]

RenewInit ==
    /\ clock = 0
    /\ tz \in TzOffsets
    /\ rlog = IdleRenew

\* a run of renew_cert.main()
RenewRun ==
    \E out \in IF validate(cfg) = <<>> /\ check_certificate_expiry(cfg, live, LocalNow(clock, tz))
               THEN CertbotOutcomes ELSE {"ok"} :
        \E m \in {renew_cert_main(cfg, live, clock, tz, out)} :
            /\ live' = m.live
            /\ rlog' = [ran |-> TRUE, file |-> m.file, utc |-> m.utc, found |-> m.found,
                        needs |-> m.needs, calls |-> m.calls, raised |-> m.raised,
                        exit |-> m.exit]

\* renew-cert, run from the command line
RenewMain ==
    /\ RenewRun
    /\ UNCHANGED <<cfg, chosen, dnsVars, deployVars, clock, tz, tasklog, cronVars>>

\* an hour passes
TimePasses ==
    /\ clock < MaxClock
    /\ clock' = clock + 1
    /\ UNCHANGED <<cfg, chosen, live, dnsVars, deployVars, tz, rlog, tasklog, cronVars>>

NextRenew == RenewMain \/ TimePasses

-----------------------------------------------------------------------------
(* cron.py: the scheduler's tasks and start()                               *)

Tasks == {"_run_renew_cert", "_run_update_slb_cert"}

\* the interval __init__ falls back to
DefaultIntervalHours == 12

\* the time.sleep(60) calls that make an hour, scaled down
SleepsPerHour == 2

\* the constructor argument: None, or an int
NoArg == [given |-> FALSE, value |-> 0]
ArgOf(n) == [given |-> TRUE, value |-> n]

\* CronScheduler.__init__(interval_hours) without the check of the interval
CronScheduler_init_unchecked(arg, fromConfig) ==
    IF ~arg.given THEN fromConfig ELSE arg.value

\* CronScheduler.__init__(interval_hours): the value of self.interval_hours;
\* fromConfig is Config.CRON_INTERVAL_HOURS
CronScheduler_init(arg, fromConfig) ==
    LET given == IF ~arg.given THEN fromConfig ELSE arg.value
    IN  IF given < 1 THEN DefaultIntervalHours ELSE given

\* schedule: the job of every(interval_hours).hours is due
Due == since_run >= interval_hours * SleepsPerHour

IdleTask == [ran |-> FALSE, ret |-> FALSE, called |-> FALSE]

TaskDone(task, ret, called) ==
    tasklog' = [tasklog EXCEPT ![task] = [ran |-> TRUE, ret |-> ret, called |-> called]]

\* the faults of the environment the scheduler's deployment task is followed in
UploadFaults == {"upload"}

\* CronScheduler._run_renew_cert(): validates, calls renew_cert.main() and turns its
\* exit code into the return value
run_renew_cert ==
    IF validate(cfg) # <<>>
    THEN TaskDone("_run_renew_cert", FALSE, FALSE) /\ UNCHANGED <<live, rlog>>
    ELSE RenewRun /\ TaskDone("_run_renew_cert", rlog'.exit = 0, TRUE)

\* CronScheduler._run_update_slb_cert(): validates, skips when no load balancer is
\* configured, calls update_slb_cert.main() and turns its exit code into the return value
run_update_slb_cert(faults) ==
    IF validate(cfg) # <<>>
    THEN TaskDone("_run_update_slb_cert", FALSE, FALSE) /\ UNCHANGED deployVars
    ELSE IF ~cfg.SLB_INSTANCE_ID \/ ~cfg.SLB_LISTENER_ID
    THEN TaskDone("_run_update_slb_cert", TRUE, FALSE) /\ UNCHANGED deployVars
    ELSE DeployRun(faults) /\ TaskDone("_run_update_slb_cert", dlog'.success, TRUE)

\* _run_all_tasks() calling the deployment task whatever the renewal task returned
run_all_tasks_regardless(renewed) == "deploy"

\* CronScheduler._run_all_tasks(): where it goes after the renewal task
run_all_tasks(renewed) == IF renewed THEN "deploy" ELSE "after"

\* the tasks, called one at a time
RunRenewCert ==
    /\ run_renew_cert
    /\ UNCHANGED <<cfg, chosen, dnsVars, deployVars, clock, tz, cronVars>>

RunUpdateSlbCert ==
    /\ run_update_slb_cert(UploadFaults)
    /\ UNCHANGED <<cfg, chosen, live, dnsVars, renewVars, cronVars>>

CronInit ==
    /\ pc = "constructed"
    /\ running = FALSE
    /\ renew_success = FALSE
    /\ inFirst = FALSE
    /\ signalled = FALSE
    /\ tlog = <<>>
    /\ tasklog = [t \in Tasks |-> IdleTask]
    /\ interval_hours = CronScheduler_init(configured.arg, CRON_INTERVAL_HOURS(configured.env))
    /\ since_run = 0

\* start(): schedules the job and begins the immediate first run
Start ==
    /\ pc = "constructed"
    /\ pc' = "renew"
    /\ inFirst' = TRUE
    /\ tlog' = <<>>
    /\ since_run' = 0
    /\ UNCHANGED <<cfg, chosen, live, dnsVars, deployVars, renewVars, tasklog, running, renew_success, signalled, configured, interval_hours>>

\* _run_all_tasks leaving the tick after the renewal step once the stop flag is set
TickRenew_stops_when_flagged ==
    /\ pc = "renew"
    /\ run_renew_cert
    /\ renew_success' = tasklog'["_run_renew_cert"].ret
    /\ pc' = IF ~running /\ ~inFirst THEN "after" ELSE run_all_tasks(renew_success')
    /\ tlog' = Append(tlog, [step |-> "renew", ok |-> renew_success', running |-> running])
    /\ UNCHANGED <<cfg, chosen, dnsVars, deployVars, clock, tz, running, inFirst, signalled, timerVars>>

\* _run_all_tasks: renew_success = self._run_renew_cert()
TickRenew ==
    /\ pc = "renew"
    /\ run_renew_cert
    /\ renew_success' = tasklog'["_run_renew_cert"].ret
    /\ pc' = run_all_tasks(renew_success')
    /\ tlog' = Append(tlog, [step |-> "renew", ok |-> renew_success', running |-> running])
    /\ UNCHANGED <<cfg, chosen, dnsVars, deployVars, clock, tz, running, inFirst, signalled, timerVars>>

\* _run_all_tasks: self._run_update_slb_cert()
TickDeploy ==
    /\ pc = "deploy"
    /\ run_update_slb_cert(UploadFaults)
    /\ pc' = "after"
    /\ tlog' = Append(tlog, [step |-> "deploy", ok |-> tasklog'["_run_update_slb_cert"].ret,
                             running |-> running])
    /\ UNCHANGED <<cfg, chosen, live, dnsVars, renewVars, running, renew_success, inFirst, signalled, timerVars>>

\* start(): self.running = True, after the immediate first run
FirstRunDone ==
    /\ pc = "after" /\ inFirst
    /\ running' = TRUE
    /\ inFirst' = FALSE
    /\ pc' = "loop"
    /\ UNCHANGED <<cfg, chosen, live, dnsVars, deployVars, renewVars, tasklog, renew_success, signalled, tlog, timerVars>>

\* start(): while self.running
LoopTest ==
    /\ pc = "loop"
    /\ pc' = IF running THEN "pending" ELSE "exited"
    /\ UNCHANGED <<cfg, chosen, live, dnsVars, deployVars, renewVars, tasklog, running, renew_success, inFirst, signalled, tlog, timerVars>>

\* start(): self.scheduler.run_pending(), the job being due or not
RunPending ==
    /\ pc = "pending"
    /\ IF Due THEN pc' = "renew" /\ tlog' = <<>>
       ELSE pc' = "sleep" /\ UNCHANGED tlog
    /\ UNCHANGED <<cfg, chosen, live, dnsVars, deployVars, renewVars, tasklog, running, renew_success, inFirst, signalled, timerVars>>

\* run_pending() returning after a tick, with a failed tick ending start()
TickDone_failure_exits ==
    /\ pc = "after" /\ ~inFirst
    /\ pc' = IF tlog[Len(tlog)].ok THEN "sleep" ELSE "exited"
    /\ since_run' = 0
    /\ UNCHANGED <<cfg, chosen, live, dnsVars, deployVars, renewVars, tasklog, running, renew_success, inFirst, signalled, tlog, configured, interval_hours>>

\* run_pending() returns after a tick
TickDone ==
    /\ pc = "after" /\ ~inFirst
    /\ pc' = "sleep"
    /\ since_run' = 0
    /\ UNCHANGED <<cfg, chosen, live, dnsVars, deployVars, renewVars, tasklog, running, renew_success, inFirst, signalled, tlog, configured, interval_hours>>

\* start(): time.sleep(60)
Sleep ==
    /\ pc = "sleep"
    /\ pc' = "loop"
    /\ since_run' = since_run + 1
    /\ UNCHANGED <<cfg, chosen, live, dnsVars, deployVars, renewVars, tasklog, running, renew_success, inFirst, signalled, tlog, configured, interval_hours>>

\* _signal_handler(): SIGINT or SIGTERM is delivered to the process
Signal ==
    /\ pc # "exited"
    /\ running' = FALSE
    /\ signalled' = TRUE
    /\ UNCHANGED <<cfg, chosen, live, dnsVars, deployVars, renewVars, tasklog, pc, renew_success, inFirst, tlog, timerVars>>

\* neither lookup of the live directory was made
NotLooked == [done |-> FALSE, dir |-> NoDir]
NotChosen == [renewal |-> NotLooked, deployment |-> NotLooked]

\* renew_cert.find_certificate_file() is called
FindCertificateFile ==
    /\ chosen' = [chosen EXCEPT !.renewal = [done |-> TRUE, dir |-> find_certificate_file(cfg, live)]]
    /\ UNCHANGED <<cfg, live, dnsVars, deployVars, renewVars, tasklog, cronVars>>

\* update_slb_cert.get_latest_certificate_paths() is called
GetLatestCertificatePaths ==
    /\ chosen' = [chosen EXCEPT !.deployment =
                      [done |-> TRUE, dir |-> get_latest_certificate_paths(cfg, live)]]
    /\ UNCHANGED <<cfg, live, dnsVars, deployVars, renewVars, tasklog, cronVars>>

NextLookup == FindCertificateFile \/ GetLatestCertificatePaths

\* the steps start() takes
SchedulerStep ==
    \/ Start \/ TickRenew \/ TickDeploy \/ FirstRunDone
    \/ LoopTest \/ RunPending \/ TickDone \/ Sleep

NextCron == SchedulerStep \/ Signal

\* the entry points, called one at a time
NextEntry == RenewMain \/ ManageCertificates(UploadFaults) \/ RunRenewCert \/ RunUpdateSlbCert

-----------------------------------------------------------------------------
(* Specifications                                                           *)

\* no interval given: no constructor argument, CRON_INTERVAL_HOURS not set
NotConfigured == [arg |-> NoArg, env |-> Unset]

\* what the parts of the program that a specification leaves alone start as
Quiet == DnsInit /\ RenewInit /\ configured = NotConfigured /\ CronInit /\ chosen = NotChosen

\* the DNS handlers, run by an ACME client
InitDns == cfg \in DnsConfigs /\ live = LiveMissing /\ Quiet /\ DeployInit /\ store = {} /\ tz = 0

SpecDns == InitDns /\ [][NextDns]_vars

\* the handlers' functions, called directly with credentials in place
InitCalls ==
    /\ cfg = ConfigOf(TRUE, TRUE, CertDomainsFromEnv(DefaultCertDomains), TRUE, TRUE, TRUE)
    /\ live = LiveMissing /\ Quiet /\ DeployInit /\ store = {} /\ tz = 0

SpecCalls == InitCalls /\ [][NextCalls]_vars

\* deployment runs from the command line
InitDeploy == cfg \in DeployConfigs /\ live \in DeployLives /\ Quiet /\ DeployInit /\ tz = 0

SpecDeploy == InitDeploy /\ [][NextDeploy]_vars

\* renewal runs from the command line, as time passes
RenewConfigs ==
    {ConfigOf(TRUE, TRUE, CertDomainsFromEnv(DefaultCertDomains), e, TRUE, TRUE) : e \in BOOLEAN}

InitRenew == cfg \in RenewConfigs /\ live \in RenewLives /\ Quiet /\ DeployInit /\ store = {}

SpecRenew == InitRenew /\ [][NextRenew]_vars

\* the two lookups of the live directory, over live directories of up to MaxDirs
\* entries in directory order (an entry without fullchain.pem also stands for a plain
\* file such as live/README) and over several domain lists
DirChoices ==
    {[name |-> n, fullchain |-> f, privkey |-> k, cert |-> CertOf(TRUE, 0)] :
         n \in {D_ec, D_a_ec, D_oc}, f \in BOOLEAN, k \in BOOLEAN}

RECURSIVE DirLists(_)
DirLists(n) ==
    IF n = 0 THEN {<<>>}
    ELSE DirLists(n - 1)
             \cup {Append(l, d) : l \in {x \in DirLists(n - 1) : Len(x) = n - 1},
                                  d \in DirChoices}

LookupLives ==
    {LiveMissing}
        \cup {[exists |-> TRUE, dirs |-> l] :
                  l \in {x \in DirLists(MaxDirs) :
                             \A i, j \in 1..Len(x) : x[i].name = x[j].name => i = j}}

LookupDomains ==
    {CertDomainsFromEnv(DefaultCertDomains), <<D_a_ec, D_ec>>, <<D_ec>>, CertDomainsFromEnv(<<>>)}

InitLookup ==
    /\ cfg \in {ConfigOf(TRUE, TRUE, d, TRUE, TRUE, TRUE) : d \in LookupDomains}
    /\ live \in LookupLives
    /\ Quiet /\ DeployInit /\ store = {} /\ tz = 0

SpecLookup == InitLookup /\ [][NextLookup]_vars

\* the configurations the entry points and the scheduler are run under: complete, and
\* with any one of the required settings missing
EntryConfigs ==
    {c \in {ConfigOf(k, s, CertDomainsFromEnv(DefaultCertDomains), e, i, l) :
                k, s, e, i, l \in BOOLEAN} :
         Len(validate(c)) <= 1}

\* the live directories they start with: no certificate, one that is due, one that is not
EntryLives ==
    {LiveMissing, LiveOf(D_ec, TRUE, CertOf(TRUE, Days(1))), LiveOf(D_ec, TRUE, CertOf(TRUE, Days(IssuedDays)))}

InitEntry ==
    /\ cfg \in EntryConfigs /\ live \in EntryLives
    /\ Quiet /\ DeployInit /\ store = {Old1} /\ tz = 0

\* the intervals the scheduler is given: by CRON_INTERVAL_HOURS, or by the argument
IntervalChoices ==
    {[arg |-> NoArg, env |-> e] : e \in {Unset, EnvOf(<<"-", "1">>), EnvOf(<<"0">>), EnvOf(<<"1">>)}}
        \cup {[arg |-> ArgOf(n), env |-> Unset] : n \in {0, 2}}

InitCron ==
    /\ cfg \in EntryConfigs /\ live \in EntryLives
    /\ DnsInit /\ RenewInit /\ configured \in IntervalChoices /\ CronInit
    /\ chosen = NotChosen
    /\ DeployInit /\ store = {Old1} /\ tz = 0

\* the entry points
SpecEntry == InitEntry /\ [][NextEntry]_vars

\* the scheduler
SpecCron == InitCron /\ [][NextCron]_vars

\* the scheduler, taking its steps as long as it has one to take
FairCron == SpecCron /\ WF_vars(SchedulerStep)

-----------------------------------------------------------------------------
(* Properties of the DNS handlers (checked under SpecDns)                  *)

\* the provider calls of the last invocation made to one API
CallsTo(api) == SelectSeq(hlog.calls, LAMBDA call : call.api = api)

\* the marker files (hook) or /tmp files (plugin) that hold a record id for a name
MarkersFor(vn) ==
    IF impl = "hook" THEN {x.content : x \in {y \in markers : StartsWith(y.content, vn \o Colon)}}
    ELSE {content \in tmpfiles : StartsWith(content, vn \o Colon)}

HasCredentials == cfg.ALIBABA_CLOUD_ACCESS_KEY_ID /\ cfg.ALIBABA_CLOUD_ACCESS_KEY_SECRET

\* C1: when the last successful present of the hook for a name stored record id R
\* (hlog.expect) and no cleanup for that name ran since, the cleanup for the name
\* issues exactly one provider delete, for R, and when the provider confirms it no
\* marker for the name remains.
C1_RoundTrip ==
    (impl = "hook" /\ hlog.op = "cleanup" /\ hlog.expect # NoId) =>
        /\ Len(CallsTo("DeleteDomainRecord")) = 1
        /\ CallsTo("DeleteDomainRecord")[1].arg = hlog.expect
        /\ CallsTo("DeleteDomainRecord")[1].out = "ok" => MarkersFor(hlog.name) = {}

\* C2: a cleanup (hook delete_txt_record, plugin del_txt_record) whose provider client
\* could be built returns normally whatever the provider's query and delete calls do:
\* nothing propagates out of it (no exception, no sys.exit).
C2_CleanupNonFatal ==
    (hlog.op = "cleanup" /\ HasCredentials) => hlog.esc = "none"

\* a hook cleanup that found no marker, whose query returned records and whose
\* delete raised, and that returned normally
C2_Witness ==
    /\ impl = "hook" /\ hlog.op = "cleanup" /\ hlog.esc = "none"
    /\ \E i \in 1..Len(hlog.calls) : hlog.calls[i].api = "DescribeDomainRecords"
    /\ \E i \in 1..Len(hlog.calls) :
           hlog.calls[i].api = "DeleteDomainRecord" /\ hlog.calls[i].out = "raise"

\* C3: a present whose create call raised or returned no record id ends in failure
\* (hook: sys.exit, a non-zero exit; plugin: PluginError), made exactly one create
\* call and left the marker files as they were.
C3_PresentFailure ==
    (/\ hlog.op = "present"
     /\ \E i \in 1..Len(hlog.calls) :
            hlog.calls[i].api = "AddDomainRecord" /\ hlog.calls[i].out \in {"raise", "noid"})
    => /\ hlog.esc = IF impl = "hook" THEN "SystemExit" ELSE "PluginError"
       /\ Len(CallsTo("AddDomainRecord")) = 1
       /\ Len(hlog.calls) = 1
       /\ hlog.before = IF impl = "hook" THEN markers ELSE tmpfiles

\* a hook present that failed on a response without record id while an earlier
\* present's marker exists
C3_Witness ==
    /\ impl = "hook" /\ hlog.op = "present" /\ hlog.esc = "SystemExit"
    /\ Len(hlog.calls) = 1 /\ hlog.calls[1].out = "noid"
    /\ markers # {}

\* the cleanup found a marker for its name: the id it read
MarkerFound ==
    IF impl = "hook" THEN get_record_id(hlog.before, hlog.name) # NoId
    ELSE Handler_get_record_id(hlog.before, hlog.name) # {NoId}

\* the zone the cleanup works in: the root domain the hook derives from the domain of
\* its name, the configured domain for the plugin
ZoneOfRun ==
    IF impl = "hook"
    THEN RootDomainOf[CHOOSE d \in HookDomains : CollapseOf[ValidationName(d)] = hlog.name]
    ELSE PluginDomain(cfg)

\* the ids a query with the keyword returns from the records the provider had
Returns(keyword) ==
    IdList({r \in hlog.had : r.zone = ZoneOfRun /\ Contains(r.rr, keyword)})

\* C22: a cleanup that finds no marker for its name makes one query, for the host
\* derived from the name, and when the query succeeds one delete request for each
\* record it returned, in that order, whatever the earlier deletes returned; a cleanup
\* that finds a marker makes no query.
C22_CleanupFallback ==
    (hlog.op = "cleanup" /\ HasCredentials) =>
        IF MarkerFound THEN CallsTo("DescribeDomainRecords") = <<>>
        ELSE /\ hlog.calls # <<>>
             /\ hlog.calls[1].api = "DescribeDomainRecords"
             /\ hlog.calls[1].arg = Subdomain(hlog.name, ZoneOfRun)
             /\ Len(CallsTo("DescribeDomainRecords")) = 1
             /\ [i \in 1..Len(CallsTo("DeleteDomainRecord")) |-> CallsTo("DeleteDomainRecord")[i].arg]
                    = IF hlog.calls[1].out = "ok" THEN Returns(hlog.calls[1].arg) ELSE <<>>

\* a fallback whose query returned two records, whose first delete failed and which
\* went on to request the second
C22_Witness ==
    /\ hlog.op = "cleanup" /\ ~MarkerFound
    /\ Len(CallsTo("DeleteDomainRecord")) = 2
    /\ CallsTo("DeleteDomainRecord")[1].out # "ok"

\* every present of the session has had its cleanup
SessionComplete ==
    session.phase = "cleaning" /\ \A n \in DnsNames : session.out[n] = 0

\* C23: after a sequence of successful presents, several for one name included, and
\* then one cleanup for each present, with every provider call succeeding, the provider
\* holds none of the records the presents created and no marker is left.
C23_NoLeakedRecords ==
    SessionComplete => records = {} /\ markers = {} /\ tmpfiles = {}

\* three presents, two of them for one name, and their three cleanups
C23_Witness ==
    SessionComplete /\ session.twice /\ nextRid = MaxRid + 1

\* in a session of presents for two names whose marker files have the same name, the
\* cleanup of the first finds the file written for the second and goes through the provider
C23_SharedFileWitness ==
    /\ impl = "hook" /\ session.phase = "cleaning" /\ hlog.op = "cleanup"
    /\ hlog.name \in {CollapseOf[ValidationName(D_a_ec)], CollapseOf[ValidationName(D_a_e_c)]}
    /\ hlog.before # {}
    /\ get_record_id(hlog.before, hlog.name) = NoId

\* the records the run deleted
DeletedByRun == hlog.had \ records

\* C25: a cleanup for a validation name deletes only records whose host is the
\* subdomain derived from the name; a record at another host is not deleted, also
\* when the keyword query returns it.
C25_CleanupOnlyOwnHost ==
    hlog.op = "cleanup" =>
        \A r \in DeletedByRun : r.rr = Subdomain(hlog.name, ZoneOfRun)

\* the same for the cleanups that find the marker of their name
C25_WithMarker ==
    (hlog.op = "cleanup" /\ MarkerFound) =>
        \A r \in DeletedByRun : r.zone = ZoneOfRun /\ r.rr = Subdomain(hlog.name, ZoneOfRun)

\* a cleanup that found its marker and deleted the record
C25_MarkerWitness == hlog.op = "cleanup" /\ MarkerFound /\ DeletedByRun # {}

\* the marker x was stored for the name of the run
OwnMarker(x) == StartsWith(x.content, hlog.name \o Colon)

\* the id the run read from a marker: the one it asked the provider to delete without
\* a query before
ReadFromMarker ==
    IF hlog.calls # <<>> /\ hlog.calls[1].api = "DeleteDomainRecord"
    THEN {hlog.calls[1].arg} ELSE {}

\* C26: an invocation of the hook for one validation name neither reads the record id
\* from, nor removes or replaces, the marker stored for another validation name, also
\* when the two names have the same marker file name.
C26_MarkerIsolation ==
    (impl = "hook" /\ hlog.op # "none") =>
        /\ \A rid \in ReadFromMarker :
               \E x \in hlog.before : x.content = hlog.name \o Colon \o rid
        /\ \A x \in hlog.before : ~OwnMarker(x) => x \in markers

\* the part of C26 about the id returned
C26_NeverReturnsOther ==
    (impl = "hook" /\ hlog.op # "none") =>
        \A rid \in ReadFromMarker :
            \E x \in hlog.before : x.content = hlog.name \o Colon \o rid

\* a cleanup that met the marker of another name in the file of its own name, and
\* did not take the id from it
C26_ReturnWitness ==
    /\ impl = "hook" /\ hlog.op = "cleanup"
    /\ \E x \in hlog.before : x.file = MarkerFileOf[hlog.name] /\ ~OwnMarker(x)
    /\ ReadFromMarker = {}

\* the cleanup found the id of its name and the provider did not confirm its delete
StoredIdUnconfirmed ==
    /\ hlog.op = "cleanup" /\ HasCredentials /\ MarkerFound
    /\ hlog.calls # <<>>
    /\ hlog.calls[1].api = "DeleteDomainRecord"
    /\ hlog.calls[1].out # "ok"

\* C27: when the provider does not confirm the delete of the stored record id (the call
\* raises, or its response has no request id), the cleanup leaves the markers as they
\* were and makes no other provider call, so no fallback query; the lookup for the name
\* gives the same record id afterwards.
C27_UnconfirmedKeepsMarker ==
    StoredIdUnconfirmed =>
        /\ Len(hlog.calls) = 1
        /\ IF impl = "hook"
           THEN markers = hlog.before
                /\ get_record_id(markers, hlog.name) = hlog.calls[1].arg
           ELSE tmpfiles = hlog.before
                /\ hlog.calls[1].arg \in Handler_get_record_id(tmpfiles, hlog.name)

\* a cleanup of the hook whose delete of the stored id got a response without request id
C27_Witness ==
    impl = "hook" /\ StoredIdUnconfirmed /\ hlog.calls[1].out = "unconfirmed"

\* the same for the plugin, with a delete that raised
C27_PluginWitness ==
    impl = "plugin" /\ StoredIdUnconfirmed /\ hlog.calls[1].out = "raise"

\* the names the hook keeps markers under: the collapsed validation names
CollapsedNames == {CollapseOf[ValidationName(d)] : d \in HookDomains}

\* the markers stored for the name
MarkersOf(name) == {x \in markers : StartsWith(x.content, name \o Colon)}

\* C30: in every state of the hook, each marker file holds "N:R", in the file named
\* after N, where N is a collapsed validation name and R a record id that the provider
\* returned from a successful create for N; there is at most one marker file for a
\* name; and after a successful present for N the marker of N holds the id that
\* present got, whatever it held before.
C30_MarkerInvariant ==
    impl = "hook" =>
        /\ \A x \in markers :
               \E N \in CollapsedNames, R \in Rids :
                   /\ x.file = MarkerFileOf[N]
                   /\ x.content = N \o Colon \o R
                   /\ created[R] = N
        /\ \A x, y \in markers : x.file = y.file => x = y
        /\ \A N \in CollapsedNames : Cardinality(MarkersOf(N)) <= 1
        /\ (hlog.op = "present" /\ hlog.esc = "none") =>
               /\ get_record_id(markers, hlog.name) = RidStr(nextRid - 1)
               /\ created[RidStr(nextRid - 1)] = hlog.name

\* a present for a name whose marker held the id of an earlier present
C30_Witness ==
    /\ impl = "hook" /\ hlog.op = "present" /\ hlog.esc = "none"
    /\ get_record_id(hlog.before, hlog.name) \notin {NoId, RidStr(nextRid - 1)}
    /\ Cardinality(markers) = 2

\* C15: an invocation of the hook in its cleanup phase ends normally, without sys.exit
\* and without an exception, whatever fails in it: the marker lookup, the query, a
\* delete, or the construction of the provider client without credentials.
C15_HookCleanupNeverFails ==
    (impl = "hook" /\ hlog.op = "cleanup") => hlog.esc = "none"

-----------------------------------------------------------------------------
(* Properties of the handler functions (checked under SpecCalls)            *)

DotStarDot == Dot \o Star \o Dot

\* h is the record host of the name v in the zone a
HostIs(h, v, a) ==
    IF EndsWith(v, Dot \o a) THEN h \o Dot \o a = v
    ELSE IF v = a THEN h = <<"@">>
    ELSE /\ Len(h) <= Len(v) /\ SubSeq(v, 1, Len(h)) = h
         /\ \A i \in Len(h) + 1..Len(v) : v[i] = "."
         /\ h # <<>> => h[Len(h)] # "."

\* the hosts the last call handed to the provider: the rr of its create request, the
\* keyword of its query
HostsHanded ==
    {hlog.calls[i].arg : i \in {k \in 1..Len(hlog.calls) :
                                    hlog.calls[k].api \in {"AddDomainRecord", "DescribeDomainRecords"}}}

\* C16: for a validation name V (without wildcard label, see C17) and the zone apex A,
\* the host that present creates the record at, and the host that the cleanup fallback
\* queries, is V without its suffix '.'+A when V ends with it, '@' when V is A, and V
\* without trailing dots otherwise; so both derive the same host from the same
\* (domain, V).
C16_SubdomainDerivation ==
    ~Contains(asked.vn, DotStarDot) =>
        \A h \in HostsHanded : HostIs(h, asked.vn, asked.zone)

\* a cleanup for a name outside the zone whose fallback queried the name without its
\* trailing dot
C16_Witness ==
    /\ hlog.op = "cleanup" /\ asked.vn = ValidationName(D_oc) \o Dot
    /\ HostsHanded = {ValidationName(D_oc)}

\* a present for the zone itself, which created the record at '@'
C16_ApexWitness ==
    hlog.op = "present" /\ asked.vn = asked.zone /\ HostsHanded = {<<"@">>}

\* a present for a name under the zone, which created the record at the name's label
C16_SuffixWitness ==
    /\ hlog.op = "present" /\ asked.vn = ValidationName(D_a_ec)
    /\ HostsHanded = {AcmeLabel \o Dot \o <<"a">>}

\* C17: for a validation name with the label '*' in it, present and cleanup replace
\* '.*.' by '.' first: the host they hand to the provider is the one of the collapsed
\* name, and the marker a successful present writes is kept under the collapsed name.
C17_WildcardCollapsing ==
    Contains(asked.vn, DotStarDot) =>
        /\ \A h \in HostsHanded : HostIs(h, Replace(asked.vn, DotStarDot, Dot), asked.zone)
        /\ (hlog.op = "present" /\ hlog.esc = "none") =>
               \E content \in (IF impl = "hook" THEN {x.content : x \in markers} ELSE tmpfiles) :
                   StartsWith(content, Replace(asked.vn, DotStarDot, Dot) \o Colon)

\* the hook collapses: the same statement for the hook alone
C17_HookCollapses == impl = "hook" => C17_WildcardCollapsing

\* a present of the hook for a name with the wildcard label
C17_HookWitness ==
    /\ impl = "hook" /\ hlog.op = "present" /\ hlog.esc = "none"
    /\ Contains(asked.vn, DotStarDot)

-----------------------------------------------------------------------------
(* Properties of deployment runs (checked under SpecDeploy)                 *)

\* the positions of the last run's calls to an API
DCallsTo(api) == {k \in 1..Len(dlog.calls) : dlog.calls[k].api = api}

\* the bundles among certs that match one of the configured domains
ForConfiguredDomains(certs) ==
    {cert \in certs : \E i \in 1..Len(cfg.CERT_DOMAINS) :
         cfg.CERT_DOMAINS[i] # <<>> /\ DomainMatches(cert, cfg.CERT_DOMAINS[i])}

\* C4: after two deployment runs in a row in which nothing failed, the store holds
\* exactly one bundle for the configured domains: the one the second run uploaded.
C4_Idempotent ==
    (dlog.ran /\ prevClean /\ CleanRun(dlog, dlog.env)) =>
        /\ dlog.uploaded # 0
        /\ {cert.id : cert \in ForConfiguredDomains(store)} = {dlog.uploaded}

\* C5: in a run whose listings all succeeded and that went on to upload, every bundle
\* that was in the store and matches a configured domain got exactly one delete
\* request, before the upload.
C5_AllMatchingDeleted ==
    (/\ dlog.ran
     /\ DCallsTo("UploadUserCertificate") # {}
     /\ \A k \in DCallsTo("ListUserCertificateOrder") : dlog.calls[k].out = "ok") =>
        \A cert \in ForConfiguredDomains(dlog.before) :
            /\ Cardinality({k \in DCallsTo("DeleteUserCertificate") : dlog.calls[k].arg = cert.id}) = 1
            /\ \A k \in DCallsTo("DeleteUserCertificate") :
                   \A u \in DCallsTo("UploadUserCertificate") :
                       dlog.calls[k].arg = cert.id => k < u

\* the configuration lacks nothing but the listener id
OnlyListenerMissing ==
    /\ ~cfg.SLB_LISTENER_ID
    /\ validate([cfg EXCEPT !.SLB_LISTENER_ID = TRUE]) = <<>>

\* C8: without a listener id, a run that finds its certificate files and reaches the
\* store still uploads, makes no listener update and reports success.
C8_NoListenerStillUploads ==
    (/\ dlog.ran
     /\ OnlyListenerMissing
     /\ dlog.env.paths /\ dlog.env.readable /\ dlog.env.cas) =>
        /\ DCallsTo("UploadUserCertificate") # {}
        /\ DCallsTo("UpdateListenerAttribute") = {}
        /\ (\A k \in DCallsTo("UploadUserCertificate") : dlog.calls[k].out # "fail") => dlog.success

\* CERT_DOMAINS is set, to the empty string
DomainsConfiguredEmpty == cfg.CERT_DOMAINS = CertDomainsFromEnv(<<>>)

\* C18: with CERT_DOMAINS configured empty, Config.validate() returns a list with the
\* error 'CERT_DOMAINS is required' in it, and a deployment run reports failure
\* without a call to the certificate store or the load balancer.
C18_EmptyDomainsRejected ==
    DomainsConfiguredEmpty =>
        /\ \E i \in 1..Len(validate(cfg)) : validate(cfg)[i] = "CERT_DOMAINS is required"
        /\ dlog.ran => ~dlog.success /\ dlog.calls = <<>>

\* the last run uploaded a bundle and the response carried a resource id
UploadedWithResource ==
    \E k \in DCallsTo("UploadUserCertificate") : dlog.calls[k].out = "ok"

\* the identifiers of the bundle the last run uploaded
ResourceIdOfUpload == [kind |-> "res", id |-> dlog.uploaded]
CertIdOfUpload == [kind |-> "cert", id |-> dlog.uploaded]

\* C11: in a run with a listener configured and a successful upload, the first listener
\* update is given the resource id of the new bundle (its certificate id when the upload
\* returned no resource id); a second one is made exactly when the first was given a
\* resource id and failed, and it is given the certificate id; there is no third; the
\* run reports failure exactly if none succeeded, and the new bundle stays in the store.
C11_ListenerFallback ==
    (dlog.ran /\ cfg.SLB_LISTENER_ID /\ dlog.uploaded # 0) =>
        /\ Len(dlog.tried) >= 1
        /\ dlog.tried[1].ident = IF UploadedWithResource THEN ResourceIdOfUpload ELSE CertIdOfUpload
        /\ Len(dlog.tried) = IF UploadedWithResource /\ ~dlog.tried[1].ok THEN 2 ELSE 1
        /\ Len(dlog.tried) = 2 => dlog.tried[2].ident = CertIdOfUpload
        /\ ~dlog.success <=> \A k \in 1..Len(dlog.tried) : ~dlog.tried[k].ok
        /\ \E cert \in store : cert.id = dlog.uploaded

\* a run whose update with the resource id failed and whose fallback succeeded
C11_Witness ==
    /\ dlog.ran /\ cfg.SLB_LISTENER_ID /\ dlog.uploaded # 0
    /\ Len(dlog.tried) = 2 /\ ~dlog.tried[1].ok /\ dlog.tried[2].ok
    /\ dlog.success

\* a run in which both listener updates failed
C11_BothFailed ==
    /\ dlog.ran /\ Len(dlog.tried) = 2 /\ ~dlog.tried[2].ok /\ ~dlog.success
    /\ \E cert \in store : cert.id = dlog.uploaded

\* the last run got as far as the delete and upload steps: the configuration was
\* accepted and the certificate files were found and read
ReachedUpload ==
    dlog.ran /\ validate(cfg) = <<>> /\ dlog.env.paths /\ dlog.env.readable

\* C12: a run whose upload failed (no client, a failed request, or a response without
\* certificate id) makes no listener update, writes no deployment record and reports
\* failure.
C12_UploadFailureAborts ==
    (ReachedUpload /\ dlog.uploaded = 0) =>
        /\ dlog.tried = <<>>
        /\ DCallsTo("UpdateListenerAttribute") = {}
        /\ ~dlog.wrote
        /\ ~dlog.success

\* a run with a listener configured whose upload request failed
C12_Witness ==
    /\ ReachedUpload /\ cfg.SLB_LISTENER_ID /\ dlog.uploaded = 0
    /\ \E k \in DCallsTo("UploadUserCertificate") : dlog.calls[k].out = "fail"

\* C13: in a run that reaches the delete step with a client for the certificate
\* store, exactly one upload request is made, after every delete request and whatever
\* the delete requests returned; and if nothing but delete requests failed, the run
\* reports success.
C13_DeleteFailureContinues ==
    (ReachedUpload /\ dlog.env.cas) =>
        /\ Cardinality(DCallsTo("UploadUserCertificate")) = 1
        /\ \A k \in DCallsTo("DeleteUserCertificate") :
               \A u \in DCallsTo("UploadUserCertificate") : k < u
        /\ (/\ dlog.env.alb
            /\ \A k \in 1..Len(dlog.calls) :
                   dlog.calls[k].api # "DeleteUserCertificate" => dlog.calls[k].out # "fail")
               => dlog.success

\* a run in which a delete request failed, the upload was made and success reported
C13_Witness ==
    /\ ReachedUpload /\ dlog.env.cas /\ dlog.success
    /\ \E k \in DCallsTo("DeleteUserCertificate") : dlog.calls[k].out = "fail"
    /\ \E u \in DCallsTo("UploadUserCertificate") : dlog.calls[u].out = "ok"

\* C20: a run writes the deployment record only if one of its listener updates
\* succeeded; a run whose listener updates all failed leaves the record as it was.
C20_RecordOnlyAfterUpdate ==
    (dlog.ran /\ dlog.wrote) => \E k \in 1..Len(dlog.tried) : dlog.tried[k].ok

\* the last run listed the store without failure, deleted what it found without
\* failure, and its upload failed
DeletedThenUploadFailed ==
    /\ ReachedUpload /\ dlog.env.cas /\ dlog.uploaded = 0
    /\ \A k \in DCallsTo("ListUserCertificateOrder") : dlog.calls[k].out = "ok"
    /\ DCallsTo("DeleteUserCertificate") # {}
    /\ \A k \in DCallsTo("DeleteUserCertificate") : dlog.calls[k].out = "ok"

\* C21: a run whose deletes succeeded and whose upload then failed does nothing to
\* make up for it: its last call is the failed upload, it reports failure, the
\* listener is not updated, and the store holds no bundle for the configured domains.
C21_NoRollback ==
    DeletedThenUploadFailed =>
        /\ dlog.calls[Len(dlog.calls)].api = "UploadUserCertificate"
        /\ dlog.tried = <<>>
        /\ ~dlog.success
        /\ ForConfiguredDomains(store) = {}

\* the same for a store that held one bundle for the configured domains
C21_SingleBundle ==
    (DeletedThenUploadFailed /\ Cardinality(ForConfiguredDomains(dlog.before)) = 1) =>
        /\ dlog.calls[Len(dlog.calls)].api = "UploadUserCertificate"
        /\ dlog.tried = <<>>
        /\ ~dlog.success
        /\ ForConfiguredDomains(store) = {}

\* a run that deleted the one bundle of the store and failed to upload
C21_SingleWitness ==
    DeletedThenUploadFailed /\ Cardinality(ForConfiguredDomains(dlog.before)) = 1

-----------------------------------------------------------------------------
(* Properties of the scheduler (checked under SpecCron and FairCron)        *)

\* a tick has run to its end
TickComplete == pc \in {"after", "sleep", "loop", "pending", "exited"}

\* C6: in every tick the renewal step comes first, and the deployment step runs in the
\* tick exactly if the renewal step returned success.
C6_RenewThenDeploy ==
    /\ tlog # <<>> => tlog[1].step = "renew"
    /\ Len(tlog) <= 2
    /\ Len(tlog) = 2 => tlog[2].step = "deploy" /\ tlog[1].ok
    /\ (TickComplete /\ tlog # <<>> /\ tlog[1].ok) => Len(tlog) = 2

\* a tick of the main loop in which renewal reported success and deployment ran
C6_Witness == pc = "sleep" /\ Len(tlog) = 2 /\ tlog[1].ok /\ tlog[2].step = "deploy"

\* C7: once a signal has been delivered, the scheduler eventually leaves its main loop.
C7_GracefulShutdown == signalled ~> (pc = "exited")

\* a tick has just ended in which the renewal task or the deployment task failed
FailedTick == pc = "after" /\ tlog # <<>> /\ ~tlog[Len(tlog)].ok

\* C14: the scheduler, once started, runs the tasks right away; a tick that starts is
\* run to its end; and after a tick in which a task failed (rejected configuration,
\* non-zero exit, exception), unless a stop signal is received, the scheduler goes on
\* to start another tick of its main loop.
C14_FailedTickContinues ==
    /\ (pc = "constructed") ~> (pc = "after" /\ inFirst)
    /\ (pc = "renew") ~> (pc = "after")
    /\ (FailedTick /\ ~signalled) ~> (signalled \/ (pc = "renew" /\ ~inFirst))

\* a tick of the main loop starts, after a tick whose renewal task failed and without
\* any signal
C14_Witness ==
    /\ pc = "renew" /\ ~inFirst /\ ~signalled
    /\ tasklog["_run_renew_cert"].ran /\ ~tasklog["_run_renew_cert"].ret
    /\ validate(cfg) = <<>>

\* C24: a stop signal delivered while a tick runs does not cut the tick short: after the
\* renewal step the tick goes on to the deployment step exactly if renewal succeeded,
\* whatever the stop flag is, the deployment step runs before the tick ends, and
\* start() returns only from the test of its loop, with the flag cleared, never from
\* within a tick.
C24_SignalDuringTick ==
    [][/\ (pc = "renew" /\ pc' # pc) =>
              /\ pc' = IF renew_success' THEN "deploy" ELSE "after"
              /\ tlog'[Len(tlog')] = [step |-> "renew", ok |-> renew_success', running |-> running]
       /\ (pc = "deploy" /\ pc' # pc) =>
              /\ pc' = "after"
              /\ tlog'[Len(tlog')].step = "deploy"
              /\ tasklog'["_run_update_slb_cert"].ran
       /\ (pc' = "exited" /\ pc # "exited") => (pc = "loop" /\ ~running)
       /\ (pc \in {"renew", "deploy"} /\ pc' = pc) => UNCHANGED <<tlog, tasklog, deployVars>>
      ]_vars

\* a tick of the main loop during which the signal was delivered, after the renewal
\* step had begun with the flag set, and whose deployment step ran all the same
C24_Witness ==
    /\ pc = "after" /\ ~inFirst
    /\ Len(tlog) = 2 /\ tlog[1].running /\ ~tlog[2].running
    /\ tlog[2].step = "deploy" /\ signalled

\* the interval the scheduler was given: the argument, or else CRON_INTERVAL_HOURS
GivenInterval ==
    IF configured.arg.given THEN configured.arg.value ELSE CRON_INTERVAL_HOURS(configured.env)

\* C19: the interval the scheduler holds is at least 1 hour: it is the given value when
\* that is 1 or more and 12 otherwise; and it is the interval the job is run at: a tick
\* of the main loop starts when that many hours of sleeps have passed since the job
\* was scheduled or last run, never before.
C19_EffectiveInterval ==
    /\ interval_hours >= 1
    /\ GivenInterval >= 1 => interval_hours = GivenInterval
    /\ GivenInterval < 1 => interval_hours = 12
    /\ since_run <= interval_hours * SleepsPerHour
    /\ (pc \in {"renew", "deploy"} /\ ~inFirst) => since_run = interval_hours * SleepsPerHour

\* a tick of the main loop of a scheduler that was given an interval of less than 1 hour
C19_Witness ==
    /\ GivenInterval < 1
    /\ pc = "renew" /\ ~inFirst
    /\ since_run = 12 * SleepsPerHour

-----------------------------------------------------------------------------
(* Properties of the lookups of the live directory (checked under SpecLookup) *)

BothLooked == chosen.renewal.done /\ chosen.deployment.done

\* C28: for the same live directory and the same domain list, the lookup of the renewal
\* checker and the lookup of deployment return the same certificate directory (or both
\* none).
C28_SameDirectory ==
    BothLooked => chosen.renewal.dir.name = chosen.deployment.dir.name

\* live holds the directory of the first configured domain, with both files
PrimaryComplete ==
    /\ cfg.CERT_DOMAINS # <<>>
    /\ \E k \in 1..Len(live.dirs) :
           /\ live.dirs[k].name = cfg.CERT_DOMAINS[1]
           /\ live.dirs[k].fullchain /\ live.dirs[k].privkey

\* with that directory in place both lookups return it
C28_PrimaryComplete ==
    (BothLooked /\ PrimaryComplete) =>
        /\ chosen.renewal.dir.name = cfg.CERT_DOMAINS[1]
        /\ chosen.deployment.dir.name = cfg.CERT_DOMAINS[1]

\* both lookups made, with that directory listed after another one
C28_PrimaryWitness ==
    BothLooked /\ PrimaryComplete /\ Len(live.dirs) = 2 /\ live.dirs[2].name = cfg.CERT_DOMAINS[1]

-----------------------------------------------------------------------------
(* Properties of the entry points (checked under SpecEntry)                 *)

\* C9: under a configuration that Config.validate() rejects, the renewal entry point,
\* the deployment entry point and both scheduler tasks report failure, and none of
\* them has run certbot (the only way to a DNS request) or made a call to the
\* certificate store or the load balancer.
C9_ValidateFirst ==
    validate(cfg) # <<>> =>
        /\ rlog.ran => rlog.exit = 1 /\ rlog.calls = <<>>
        /\ dlog.ran => ~dlog.success /\ dlog.calls = <<>>
        /\ \A t \in Tasks : tasklog[t].ran => ~tasklog[t].ret /\ ~tasklog[t].called

\* all four have run under a rejected configuration
C9_Witness ==
    /\ validate(cfg) # <<>>
    /\ rlog.ran /\ dlog.ran
    /\ \A t \in Tasks : tasklog[t].ran

-----------------------------------------------------------------------------
(* Properties of renewal runs (checked under SpecRenew)                     *)

\* C10: renewal is reported due exactly when no certificate file is found, its expiry
\* cannot be read, or the certificate expires less than thirty days from now.
C10_Threshold ==
    (rlog.ran /\ validate(cfg) = <<>>) =>
        (rlog.needs <=>
            \/ ~rlog.found
            \/ ~rlog.file.readable
            \/ rlog.file.notAfter - rlog.utc < Days(RenewalDays))

\* the last renewal run passed Config.validate()
RenewalChecked == rlog.ran /\ validate(cfg) = <<>>

\* the run invoked certbot once, with --force-renewal
InvokedOnce ==
    /\ Len(rlog.calls) = 1
    /\ rlog.calls[1].api = "certbot" /\ rlog.calls[1].force_renewal

\* C29: a renewal run whose certificate is not due makes no certbot call and exits with
\* 0; one whose certificate is due invokes certbot exactly once, with forced renewal,
\* and exits with 0 exactly if certbot's exit code is 0.
C29_OnlyWhenDue ==
    RenewalChecked =>
        IF ~rlog.needs THEN rlog.calls = <<>> /\ rlog.exit = 0
        ELSE InvokedOnce /\ (rlog.exit = 0 <=> rlog.calls[1].out = "ok")

\* C29 as the code has it: a run that is due and in which renew_certificate() raises
\* before certbot runs makes no certbot call and exits with 1
C29_OnlyWhenDueUnlessRaised ==
    RenewalChecked =>
        IF ~rlog.needs THEN rlog.calls = <<>> /\ rlog.exit = 0
        ELSE IF rlog.raised THEN rlog.calls = <<>> /\ rlog.exit = 1
        ELSE InvokedOnce /\ (rlog.exit = 0 <=> rlog.calls[1].out = "ok")

\* a run that was due, whose certbot call ended with a non-zero exit code
C29_Witness ==
    RenewalChecked /\ rlog.needs /\ InvokedOnce /\ rlog.calls[1].out = "failed" /\ rlog.exit = 1

\* a run that was due and renewed, followed by a run that was not due
C29_NotDueWitness ==
    RenewalChecked /\ ~rlog.needs /\ rlog.found /\ rlog.file.notAfter = Days(IssuedDays)

\* a run that was due in which certbot could not be started
C29_RaisedWitness == RenewalChecked /\ rlog.needs /\ rlog.raised

====
